---- MODULE Spec2Model ----
(***************************************************************************)
(* Kynetix steady-state kinetics solver: pynetics/solvers/solver_base.py.  *)
(*                                                                         *)
(* SolverBase turns an elementary-reaction network and a free-energy       *)
(* mapping E into barriers and rate constants (numeric path) and into      *)
(* symbolic barrier expressions (sympy path).  NewtonRoot is the           *)
(* constrained Newton iteration, exposed as a generator.                   *)
(*                                                                         *)
(* Number representation.  Energies are integers, in units of kB*T*ln(2),  *)
(* so that exp(-dG/(kB*T)) is the power of two 2^(-dG).  Rate constants    *)
(* are integers in units of (kB*T/h)*2^(-KOff): k = 2^(KOff - dG).         *)
(* Coverages are integers in units of 1/MaxCvg of a site.                  *)
(***************************************************************************)
EXTENDS Integers, Sequences, FiniteSets, TLC

(***************************************************************************)
(* Bounds of the model.                                                    *)
(***************************************************************************)
\* Largest formation energy a data file gives a species.
MaxE == 1

\* At most this many species are missing from the owner's data.
MaxMissing == 1

\* Coverages are counted in units of 1/MaxCvg: MaxCvg is a full site.
MaxCvg == 2

\* The model stops resuming a generator after this many iterations.
MaxIter == 8

\* The line search picks its step length among 0..MaxLambda.
MaxLambda == 2

Energies == -1..MaxE

\* Energies of the data files of the data-reload specification.
DataEnergies == {-1, MaxE}

(***************************************************************************)
(* The owner (model object): name lists, species, reaction network.        *)
(* The network is CO oxidation on one site type s:                         *)
(*   CO_g + *_s -> CO_s                                                    *)
(*   CO_s + O_s <-> CO-O_s + *_s -> CO2_g + 2*_s                           *)
(***************************************************************************)
gas_names == <<"CO_g", "CO2_g">>

adsorbate_names == <<"CO_s", "O_s">>

transition_state_names == <<"CO-O_s">>

site_names == <<"s">>

Range(seq) == {seq[i] : i \in DOMAIN seq}

Species ==
    Range(gas_names) \cup Range(adsorbate_names)
        \cup Range(transition_state_names) \cup Range(site_names)

\* species_definitions[species]['type']
species_type(species) ==
    IF species \in Range(gas_names) THEN "gas"
    ELSE IF species \in Range(adsorbate_names) THEN "adsorbate"
    ELSE IF species \in Range(site_names) THEN "site"
    ELSE "transition_state"

\* The key of a species in E: a site s is keyed as the free site '*_s'.
E_key(species) ==
    IF species_type(species) = "site" THEN "*_" \o species ELSE species

Keys == {E_key(species) : species \in Species}

\* One species term of a state, e.g. '2*_s'.
Term(n, name) == [stoichiometry |-> n, species_name |-> name]

\* split_species('2*_s') = (2, '*_s')
split_species(sp) == <<sp.stoichiometry, sp.species_name>>

elementary_rxns_list ==
    << << <<Term(1, "CO_g"), Term(1, "*_s")>>,
          <<Term(1, "CO_s")>> >>,
       << <<Term(1, "CO_s"), Term(1, "O_s")>>,
          <<Term(1, "CO-O_s"), Term(1, "*_s")>>,
          <<Term(1, "CO2_g"), Term(2, "*_s")>> >> >>

\* setattr(self, 'rxns_list', self._owner.elementary_rxns_list)
rxns_list == elementary_rxns_list

rxns_num == Len(rxns_list)

RxnIdx == 1..rxns_num

AllStates == UNION {Range(rxns_list[i]) : i \in RxnIdx}

RECURSIVE state_weight(_)
state_weight(state) ==
    IF state = <<>> THEN 0
    ELSE split_species(Head(state))[1] + state_weight(Tail(state))

MaxOf(S) == CHOOSE m \in S : \A n \in S : n <= m

\* No |barrier| exceeds this, for any energy assignment within the bounds
\* and with one intermediate moved by the perturbation of get_rate_control.
KOff ==
    MaxOf({state_weight(state) : state \in AllStates}) * (MaxE + 1) + 2

(***************************************************************************)
(* State.                                                                  *)
(***************************************************************************)
VARIABLES
    hasdata,             \* owner.hasdata
    species_definitions, \* owner: species -> [formation_energy]; a species
                         \* the data lacks is outside the DOMAIN
    p,                   \* solver.p: gas name -> pressure
    E,                   \* solver.E: key -> free energy (a Python dict)
    frequencies,         \* solver.frequencies: key -> frequencies
    has_data,            \* solver.has_data
    energy_correction,   \* solver.energy_correction
    _Gaf, _Gar,          \* stored forward / reverse barriers, one per rxn
    _kfs, _krs,          \* stored forward / reverse rate constants
    has_symbols,         \* solver.has_symbols
    state_energy_dict,   \* owner.state_energy_dict: <<>> while the attribute
                         \* does not exist, else <<state -> energy>>
    delta_G_syms,        \* <<>> while delta_Gf_syms / delta_Gr_syms do not
                         \* exist, else <<[f |-> ..., r |-> ...]>>
    last_call            \* the last operation called and what it raised

solver_vars ==
    <<hasdata, species_definitions, p, E, frequencies, has_data, energy_correction,
      _Gaf, _Gar, _kfs, _krs, has_symbols, state_energy_dict, delta_G_syms,
      last_call>>

(***************************************************************************)
(* Numeric path: get_reaction_energies, get_rate_constants.                *)
(***************************************************************************)
\* self.E[species_name], with the default a dict.get(name, 0.0) would give.
E_getitem_default(Emap, species_name) ==
    IF species_name \in DOMAIN Emap
    THEN [raised |-> FALSE, value |-> Emap[species_name]]
    ELSE [raised |-> FALSE, value |-> 0]

\* self.E[species_name]: KeyError when the dict has no such key.
E_getitem(Emap, species_name) ==
    IF species_name \in DOMAIN Emap
    THEN [raised |-> FALSE, value |-> Emap[species_name]]
    ELSE [raised |-> TRUE, value |-> 0]

\* G += stoichiometry * self.E[species_name], over the terms of one state.
RECURSIVE state_G(_, _)
state_G(Emap, state) ==
    IF state = <<>> THEN [raised |-> FALSE, value |-> 0]
    ELSE LET sp   == split_species(Head(state))
             e    == E_getitem(Emap, sp[2])
             rest == state_G(Emap, Tail(state))
         IN  [raised |-> e.raised \/ rest.raised,
              value  |-> sp[1] * e.value + rest.value]

\* G_TS = max(G_IS, G_FS): Python's max keeps the first of two equal values.
G_TS_max(G_IS, G_FS) == IF G_FS > G_IS THEN G_FS ELSE G_IS

r_barrier_from_IS(G_IS, G_TS, G_FS) == G_TS - G_IS

f_barrier_from_FS(G_IS, G_TS, G_FS) == G_TS - G_FS

f_barrier_clipped(G_IS, G_TS, G_FS) ==
    IF G_TS - G_IS < 0 THEN 0 ELSE G_TS - G_IS

\* f_barrier, r_barrier = G_TS - G_IS, G_TS - G_FS
f_barrier(G_IS, G_TS, G_FS) == G_TS - G_IS

r_barrier(G_IS, G_TS, G_FS) == G_TS - G_FS

get_reaction_energies(Emap, elementary_rxn_list) ==
    LET n  == Len(elementary_rxn_list)
        IS == state_G(Emap, elementary_rxn_list[1])
        FS == state_G(Emap, elementary_rxn_list[n])
        TS == IF n = 3 THEN state_G(Emap, elementary_rxn_list[2])
              ELSE [raised |-> FALSE, value |-> 0]
        G_TS == IF n = 2 THEN G_TS_max(IS.value, FS.value) ELSE TS.value
    IN  IF IS.raised \/ FS.raised \/ TS.raised
        THEN [raised |-> TRUE, f_barrier |-> 0, r_barrier |-> 0]
        ELSE [raised |-> FALSE,
              f_barrier |-> f_barrier(IS.value, G_TS, FS.value),
              r_barrier |-> r_barrier(IS.value, G_TS, FS.value)]

rate_constant_pos(delta_G) == 2 ^ (KOff + delta_G)

\* k = prefactor*exp(-delta_G/(kB*T)), in units of prefactor*2^(-KOff).
rate_constant(delta_G) == 2 ^ (KOff - delta_G)

\* What get_rate_constants computes from E before it stores anything.
rate_constants_of(Emap) ==
    LET dG == [i \in RxnIdx |-> get_reaction_energies(Emap, rxns_list[i])]
    IN  IF \E i \in RxnIdx : dG[i].raised
        THEN [raised |-> TRUE, Gaf |-> <<>>, Gar |-> <<>>,
              kfs |-> <<>>, krs |-> <<>>]
        ELSE [raised |-> FALSE,
              Gaf |-> [i \in RxnIdx |-> dG[i].f_barrier],
              Gar |-> [i \in RxnIdx |-> dG[i].r_barrier],
              kfs |-> [i \in RxnIdx |-> rate_constant(dG[i].f_barrier)],
              krs |-> [i \in RxnIdx |-> rate_constant(dG[i].r_barrier)]]

\* The stores of a get_rate_constants that raises after the loop has
\* appended to attributes instead of locals.
store_rate_constants_eager(rc) ==
    /\ _Gaf' = rc.Gaf /\ _Gar' = rc.Gar
    /\ _kfs' = rc.kfs /\ _krs' = rc.krs

\* self._Gaf, self._Gar, self._kfs, self._krs = map(tuple, [...]): reached
\* only when no lookup raised.
store_rate_constants(rc) ==
    IF rc.raised
    THEN UNCHANGED <<_Gaf, _Gar, _kfs, _krs>>
    ELSE /\ _Gaf' = rc.Gaf /\ _Gar' = rc.Gar
         /\ _kfs' = rc.kfs /\ _krs' = rc.krs

get_rate_constants ==
    LET rc == rate_constants_of(E)
    IN  /\ store_rate_constants(rc)
        /\ last_call' = [op |-> "get_rate_constants",
                         raised |-> IF rc.raised THEN "KeyError" ELSE "None"]
        /\ UNCHANGED <<hasdata, species_definitions, p, E, frequencies, has_data,
                       energy_correction, has_symbols, state_energy_dict,
                       delta_G_syms>>

(***************************************************************************)
(* Loading the owner's data: get_data_dict.                                *)
(***************************************************************************)
\* The entry of one species in the owner's species_definitions.
species_data(species, energy) ==
    IF species_type(species) = "gas"
    THEN [formation_energy |-> energy, pressure |-> 1, frequencies |-> <<>>]
    ELSE [formation_energy |-> energy, frequencies |-> <<>>]

\* The fields get_data_dict reads of a species entry.
DataFields == {"pressure", "formation_energy", "frequencies"}

\* How many species, and fields of species, the owner's data lacks.
missing_data ==
    Cardinality(Species \ DOMAIN species_definitions)
        + Cardinality({entry \in Species \X DataFields :
                         /\ entry[1] \in DOMAIN species_definitions
                         /\ entry[2] \in DOMAIN species_data(entry[1], 0)
                         /\ entry[2] \notin
                              DOMAIN species_definitions[entry[1]]})

\* The owner's data loses a species (a data file that does not list it).
owner_drop_species ==
    /\ missing_data < MaxMissing
    /\ \E species \in DOMAIN species_definitions :
         species_definitions' =
             [sp \in DOMAIN species_definitions \ {species} |->
                 species_definitions[sp]]
    /\ UNCHANGED <<hasdata, p, E, frequencies, has_data, energy_correction,
                   _Gaf, _Gar, _kfs, _krs, has_symbols, state_energy_dict,
                   delta_G_syms, last_call>>

\* The owner's data loses one field of one species.
owner_drop_field ==
    /\ missing_data < MaxMissing
    /\ \E species \in DOMAIN species_definitions :
         \E field \in DataFields \cap DOMAIN species_data(species, 0) :
            species_definitions' =
                [species_definitions EXCEPT
                    ![species] = [fld \in DOMAIN @ \ {field} |-> @[fld]]]
    /\ UNCHANGED <<hasdata, p, E, frequencies, has_data, energy_correction,
                   _Gaf, _Gar, _kfs, _krs, has_symbols, state_energy_dict,
                   delta_G_syms, last_call>>

\* The owner's data is withdrawn or loaded again.
owner_set_hasdata(flag) ==
    /\ hasdata # flag
    /\ hasdata' = flag
    /\ UNCHANGED <<species_definitions, p, E, frequencies, has_data,
                   energy_correction, _Gaf, _Gar, _kfs, _krs, has_symbols,
                   state_energy_dict, delta_G_syms, last_call>>

\* The species whose key in E is key.
species_of_key(defs, key) == CHOOSE sp \in DOMAIN defs : E_key(sp) = key

\* p_dict, E_dict, frequencies_dict as get_data_dict builds them.
data_dicts_of(defs) ==
    IF \/ \E gas \in Range(gas_names) :
             gas \notin DOMAIN defs \/ "pressure" \notin DOMAIN defs[gas]
       \/ \E sp \in DOMAIN defs :
             \/ "formation_energy" \notin DOMAIN defs[sp]
             \/ "frequencies" \notin DOMAIN defs[sp]
    THEN [raised |-> TRUE, p |-> <<>>, E |-> <<>>, frequencies |-> <<>>]
    ELSE LET keys == {E_key(sp) : sp \in DOMAIN defs}
         IN  [raised |-> FALSE,
              p |-> [gas \in Range(gas_names) |-> defs[gas].pressure],
              E |-> [k \in keys |->
                       defs[species_of_key(defs, k)].formation_energy],
              frequencies |-> [k \in keys |->
                       defs[species_of_key(defs, k)].frequencies]]

\* A failed load that has already reset the correction flag.
data_dict_failed_flag_reset ==
    /\ energy_correction' = FALSE
    /\ UNCHANGED <<p, E, frequencies, has_data>>

\* A raise before line 156: no attribute has been assigned.
data_dict_failed ==
    UNCHANGED <<p, E, frequencies, has_data, energy_correction>>

get_data_dict ==
    LET d == data_dicts_of(species_definitions)
    IN  /\ IF ~hasdata \/ d.raised
           THEN data_dict_failed
           ELSE /\ p' = d.p /\ E' = d.E /\ frequencies' = d.frequencies
                /\ energy_correction' = FALSE
                /\ has_data' = TRUE
        /\ last_call' = [op |-> "get_data_dict",
                         raised |-> IF ~hasdata THEN "AttributeError"
                                    ELSE IF d.raised THEN "KeyError"
                                    ELSE "None"]
        /\ UNCHANGED <<hasdata, species_definitions, _Gaf, _Gar, _kfs, _krs,
                       has_symbols, state_energy_dict, delta_G_syms>>

(***************************************************************************)
(* Symbolic path: get_data_symbols, get_delta_G_symbols.                   *)
(* A symbolic energy expression is a linear form over the free-energy      *)
(* symbols G_<key>: a function from symbol names to coefficients.  "0" is  *)
(* the symbol sym.Symbol('0') each state expression starts from.           *)
(***************************************************************************)
SymNames == Keys \cup {"0"}

\* state_energy_sym = Symbol('0') + sum of stoichiometry*G_symbol
RECURSIVE state_energy_sym(_)
state_energy_sym(state_list) ==
    IF state_list = <<>> THEN [k \in SymNames |-> IF k = "0" THEN 1 ELSE 0]
    ELSE LET sp   == split_species(Head(state_list))
             rest == state_energy_sym(Tail(state_list))
         IN  [k \in SymNames |->
                 IF k = sp[2] THEN rest[k] + sp[1] ELSE rest[k]]

sym_minus(a, b) == [k \in SymNames |-> a[k] - b[k]]

\* seq[idx] with Python's indices: 0 is the first, -1 the last element.
py_getitem(seq, idx) ==
    IF idx < 0 THEN seq[Len(seq) + idx + 1] ELSE seq[idx + 1]

\* get_state_energy_dict: ' + '.join(state) -> energy of the state, over
\* every state of every reaction (the key is modelled by the state itself).
get_state_energy_dict(Emap) ==
    [state \in AllStates |-> state_G(Emap, state).value]

TS_idx_strict(IS_energy, FS_energy) == IF IS_energy < FS_energy THEN -1 ELSE 0

\* TS_idx = -1 if IS_energy <= FS_energy else 0
TS_idx(IS_energy, FS_energy) == IF IS_energy <= FS_energy THEN -1 ELSE 0

get_single_delta_G_symbols(sed, elementary_rxn_list) ==
    LET state_energy_sym_list ==
            [j \in DOMAIN elementary_rxn_list |->
                state_energy_sym(elementary_rxn_list[j])]
        IS_energy_sym == py_getitem(state_energy_sym_list, 0)
        FS_energy_sym == py_getitem(state_energy_sym_list, -1)
        TS_energy_sym ==
            IF Len(state_energy_sym_list) = 3
            THEN py_getitem(state_energy_sym_list, 1)
            ELSE LET IS_energy == sed[py_getitem(elementary_rxn_list, 0)]
                     FS_energy == sed[py_getitem(elementary_rxn_list, -1)]
                 IN  py_getitem(state_energy_sym_list,
                                TS_idx(IS_energy, FS_energy))
    IN  <<sym_minus(TS_energy_sym, IS_energy_sym),
          sym_minus(TS_energy_sym, FS_energy_sym)>>

get_data_symbols ==
    /\ has_symbols' = TRUE
    /\ last_call' = [op |-> "get_data_symbols", raised |-> "None"]
    /\ UNCHANGED <<hasdata, species_definitions, p, E, frequencies, has_data,
                   energy_correction, _Gaf, _Gar, _kfs, _krs,
                   state_energy_dict, delta_G_syms>>

get_delta_G_symbols ==
    IF ~has_symbols
    THEN /\ last_call' = [op |-> "get_delta_G_symbols",
                          raised |-> "AttributeError"]
         /\ UNCHANGED <<hasdata, species_definitions, p, E, frequencies, has_data,
                        energy_correction, _Gaf, _Gar, _kfs, _krs,
                        has_symbols, state_energy_dict, delta_G_syms>>
    ELSE LET sed == IF state_energy_dict = <<>>
                    THEN get_state_energy_dict(E)
                    ELSE state_energy_dict[1]
             syms == [i \in RxnIdx |->
                         get_single_delta_G_symbols(sed, rxns_list[i])]
         IN  /\ state_energy_dict' = <<sed>>
             /\ delta_G_syms' = << [f |-> [i \in RxnIdx |-> syms[i][1]],
                                    r |-> [i \in RxnIdx |-> syms[i][2]]] >>
             /\ last_call' = [op |-> "get_delta_G_symbols", raised |-> "None"]
             /\ UNCHANGED <<hasdata, species_definitions, p, E, frequencies, has_data,
                            energy_correction, _Gaf, _Gar, _kfs, _krs,
                            has_symbols>>

\* The value of a symbolic energy expression under E (get_G_subs_dict and
\* evalf(subs=...)); Symbol('0') has no value and must have cancelled.
eval_sym(expr, Emap) ==
    LET RECURSIVE acc(_)
        acc(S) == IF S = {} THEN 0
                  ELSE LET k == CHOOSE x \in S : TRUE
                       IN  expr[k] * Emap[k] + acc(S \ {k})
    IN  acc({k \in Keys : expr[k] # 0})

\* State of the rate and turnover-frequency operations.
VARIABLES
    network,           \* self.rxns_list of this solver
    steady_state_cvg,  \* the coverages get_steady_state_cvgs returns
    logger_kind,       \* "record": the logger keeps what it is handed,
                       \* "noop": archive_data does nothing
    rate_expressions,  \* <<>> while the attribute does not exist, else
                       \* <<[f |-> ..., r |-> ...]>>
    _rates,            \* <<>> or <<[rfs |-> ..., rrs |-> ...]>>
    net_rates,         \* <<>> or <<net rates>>
    reversibilities,   \* <<>> or <<reversibilities>>
    tof,               \* <<>> or <<tof list>>
    archived,          \* what the last operation of this part handed to
                       \* the logger and the logger kept, in call order
    tof_calls,         \* the arguments of the get_tof (or f) evaluations of
                       \* the last operation, in call order
    returned           \* <<value>> the last operation returned, <<>> if it
                       \* raised

tof_vars ==
    <<network, steady_state_cvg, logger_kind, rate_expressions, _rates,
      net_rates, reversibilities, tof, archived, tof_calls, returned>>


(***************************************************************************)
(* NewtonRoot: the constrained Newton iteration, a generator.              *)
(*                                                                         *)
(* A point is a coverage vector <<theta_CO_s, theta_O_s>>.  f, J and the   *)
(* real constraint are function objects given at construction; they are    *)
(* drawn from small families.  The instance is constructed with the        *)
(* dtheta_dt_expressions keyword that J receives.                          *)
(***************************************************************************)
VARIABLES
    f,               \* self.f: [kind |-> "linear", v |-> root]: x - v
                     \*         [kind |-> "const", v |-> c]: c
    J,               \* self.J: [kind, at]: a constant matrix ("identity",
                     \*         "swap", "zero", "rotate") or the identity
                     \*         but for a singular matrix at the point at
    self_x0,         \* self.x0
    real_constraint, \* self.real_constraint: "clamp" or "none"
    constraint,      \* self.constraint: "unset", "quasi" or "real"
    gen,             \* per generator: "none", "created", "suspended", "done"
    iter_counter,    \* per generator: its local iter_counter
    x0,              \* per generator: its local x0
    fx,              \* per generator: its local fx
    fxnorm,          \* per generator: its local fxnorm
    cancel,          \* per generator: its local cancel
    yielded,         \* per generator: <<triple>> the last next() returned,
                     \* <<>> when it returned none
    next_raised,     \* per generator: what the last next() raised
    printed          \* per generator: the message it printed, "" if none

newton_vars ==
    <<f, J, self_x0, real_constraint, constraint, gen, iter_counter, x0, fx,
      fxnorm, cancel, yielded, next_raised, printed>>

vars == <<solver_vars, tof_vars, newton_vars>>

\* Generators obtained from the one NewtonRoot instance.
Iters == {1, 2}

\* The iterations whose constraint is the quasi constraint.
WarmUp == 5

Points == (-1..(MaxCvg + 1)) \X (-1..(MaxCvg + 1))

Feasible ==
    {x \in (0..MaxCvg) \X (0..MaxCvg) : x[1] + x[2] <= MaxCvg}

vec_add(a, b) == <<a[1] + b[1], a[2] + b[2]>>

vec_scale(l, a) == <<l * a[1], l * a[2]>>

vec_neg(a) == <<-a[1], -a[2]>>

\* self._norm: the 2-norm, represented by its square.
norm(v) == v[1] * v[1] + v[2] * v[2]

\* f(x)
apply_f(fobj, x) ==
    IF fobj.kind = "linear" THEN <<x[1] - fobj.v[1], x[2] - fobj.v[2]>>
    ELSE fobj.v

\* J(self.dtheta_dt_expressions, x0): a 2x2 matrix <<row1, row2>>.
apply_J(Jobj, x) ==
    IF Jobj.kind = "identity" THEN << <<1, 0>>, <<0, 1>> >>
    ELSE IF Jobj.kind = "swap" THEN << <<0, 1>>, <<1, 0>> >>
    ELSE IF Jobj.kind = "zero" THEN << <<0, 0>>, <<0, 0>> >>
    ELSE IF Jobj.kind = "rotate" THEN << <<1, 1>>, <<-1, 1>> >>
    ELSE IF x = Jobj.at THEN << <<1, 1>>, <<1, 1>> >>
    ELSE << <<1, 0>>, <<0, 1>> >>

\* self._Axb_solver(Jx, fxn): lu_solve; a singular matrix raises
\* ZeroDivisionError.
Axb_solver(A, b) ==
    LET det == A[1][1] * A[2][2] - A[1][2] * A[2][1]
    IN  IF det = 0 THEN [raised |-> TRUE, s |-> <<0, 0>>]
        ELSE [raised |-> FALSE,
              s |-> <<(A[2][2] * b[1] - A[1][2] * b[2]) \div det,
                      (A[1][1] * b[2] - A[2][1] * b[1]) \div det>>]

\* fl(l) = norm(f(x0 + l*s))
fl(fobj, x, s, l) == norm(apply_f(fobj, vec_add(x, vec_scale(l, s))))

\* l = golden(fl): a step length of least fl; among equal ones the
\* shortest, so that a search that finds no decrease does not move.
golden(fobj, x, s) ==
    LET best(l) == \A m \in 0..MaxLambda :
                     \/ fl(fobj, x, s, l) < fl(fobj, x, s, m)
                     \/ /\ fl(fobj, x, s, l) = fl(fobj, x, s, m)
                        /\ l <= m
    IN  CHOOSE l \in 0..MaxLambda : best(l)

Min2(a, b) == IF a < b THEN a ELSE b

Max2(a, b) == IF a > b THEN a ELSE b

\* def quasi_constraint(x): return x
quasi_constraint(x) == x

\* self.real_constraint(x).  "clamp" maps every vector into the feasible set:
\* each coverage into 0..MaxCvg, then the site's sum down to MaxCvg.
apply_real_constraint(kind, x) ==
    IF kind = "none" THEN x
    ELSE LET a == Max2(0, Min2(MaxCvg, x[1]))
             b == Max2(0, Min2(MaxCvg, x[2]))
         IN  <<a, Min2(b, MaxCvg - a)>>

select_constraint_early(n) == IF n < WarmUp THEN "quasi" ELSE "real"

\* if iter_counter <= 5: self.constraint = self.quasi_constraint
\* else: self.constraint = self.real_constraint
select_constraint(n) == IF n <= WarmUp THEN "quasi" ELSE "real"

\* self.constraint(x)
apply_constraint(which, x) ==
    IF which = "real" THEN apply_real_constraint(real_constraint, x)
    ELSE quasi_constraint(x)

is_stationary_first(x1, x_prev) == x1[1] = x_prev[1]

\* if x1 == x0
is_stationary(x1, x_prev) == x1 = x_prev

loop_continues_capped(c, n) == ~c /\ n < WarmUp

\* while not cancel
loop_continues(c, n) == ~c

\* The candidate x0 + l*s of one iteration from x, before the constraint.
candidate(x) ==
    LET sol == Axb_solver(apply_J(J, x), vec_neg(apply_f(f, x)))
    IN  vec_add(x, vec_scale(golden(f, x, sol.s), sol.s))

\* iter(newton): a new generator object; its body has not run yet.
newton_iter(i) ==
    /\ gen[i] # "created"
    /\ gen' = [gen EXCEPT ![i] = "created"]
    /\ iter_counter' = [iter_counter EXCEPT ![i] = 0]
    /\ x0' = [x0 EXCEPT ![i] = self_x0]
    /\ fx' = [fx EXCEPT ![i] = <<0, 0>>]
    /\ fxnorm' = [fxnorm EXCEPT ![i] = 0]
    /\ cancel' = [cancel EXCEPT ![i] = FALSE]
    /\ yielded' = [yielded EXCEPT ![i] = <<>>]
    /\ next_raised' = [next_raised EXCEPT ![i] = "None"]
    /\ printed' = [printed EXCEPT ![i] = ""]
    /\ UNCHANGED <<f, J, self_x0, real_constraint, constraint>>

\* The constraint as the instance holds it when the iteration begins, the
\* identity while none is stored.
constraint_applied_stale(stored, n) ==
    IF stored = "unset" THEN "quasi" ELSE stored

\* x1 = self.constraint(vec2tup(x1)): self.constraint read in iteration n,
\* after the assignment at the top of the same iteration.
constraint_applied(stored, n) == select_constraint(n)

\* The triple without the evaluation after the constraint: fx is still the
\* residual of the point the iteration started from.
yield_triple_stale(fobj, x_top, x1) ==
    [point |-> x1,
     residual_norm |-> norm(apply_f(fobj, x_top)),
     residual_vector |-> apply_f(fobj, x_top)]

\* fx = self._matrix(f(x1)); x0, fxnorm = x1, norm(fx); yield x0, fxnorm, fx
yield_triple(fobj, x_top, x1) ==
    [point |-> x1,
     residual_norm |-> norm(apply_f(fobj, x1)),
     residual_vector |-> apply_f(fobj, x1)]

\* next(generator): from the generator's start, or from its yield, to the
\* next yield or to the end of the generator.
newton_next(i) ==
    /\ gen[i] \in {"created", "suspended"}
    /\ cancel[i] \/ iter_counter[i] < MaxIter
    /\ LET x  == IF gen[i] = "created" THEN quasi_constraint(self_x0)
                 ELSE x0[i]
           n  == iter_counter[i] + 1
       IN  IF ~loop_continues(cancel[i], iter_counter[i])
           THEN \* the while loop ends: the generator returns
                /\ gen' = [gen EXCEPT ![i] = "done"]
                /\ yielded' = [yielded EXCEPT ![i] = <<>>]
                /\ next_raised' = [next_raised EXCEPT ![i] = "StopIteration"]
                /\ UNCHANGED <<constraint, iter_counter, x0, fx, fxnorm,
                               cancel, printed>>
           ELSE LET sol == Axb_solver(apply_J(J, x), vec_neg(apply_f(f, x)))
                IN  /\ iter_counter' = [iter_counter EXCEPT ![i] = n]
                    /\ constraint' = select_constraint(n)
                    /\ IF sol.raised
                       THEN \* except ZeroDivisionError: print, cancel, break
                            /\ printed' =
                                 [printed EXCEPT ![i] = "ZeroDivisionError!"]
                            /\ cancel' = [cancel EXCEPT ![i] = TRUE]
                            /\ gen' = [gen EXCEPT ![i] = "done"]
                            /\ yielded' = [yielded EXCEPT ![i] = <<>>]
                            /\ next_raised' =
                                 [next_raised EXCEPT ![i] = "StopIteration"]
                            /\ x0' = [x0 EXCEPT ![i] = x]
                            /\ fx' = [fx EXCEPT ![i] = apply_f(f, x)]
                            /\ fxnorm' =
                                 [fxnorm EXCEPT ![i] =
                                     IF gen[i] = "created"
                                     THEN norm(apply_f(f, x)) ELSE @]
                       ELSE LET l  == golden(f, x, sol.s)
                                x1 == apply_constraint(
                                          constraint_applied(constraint, n),
                                          vec_add(x, vec_scale(l, sol.s)))
                                st == is_stationary(x1, x)
                            IN  /\ printed' =
                                     [printed EXCEPT ![i] =
                                        IF st
                                        THEN "Solver: Found stationary point."
                                        ELSE @]
                                /\ cancel' = [cancel EXCEPT ![i] = st]
                                /\ fx' = [fx EXCEPT ![i] = apply_f(f, x1)]
                                /\ x0' = [x0 EXCEPT ![i] = x1]
                                /\ fxnorm' =
                                     [fxnorm EXCEPT ![i] =
                                         norm(apply_f(f, x1))]
                                /\ yielded' =
                                     [yielded EXCEPT ![i] =
                                        << yield_triple(f, x, x1) >>]
                                /\ next_raised' =
                                     [next_raised EXCEPT ![i] = "None"]
                                /\ gen' = [gen EXCEPT ![i] = "suspended"]
    /\ UNCHANGED <<f, J, self_x0, real_constraint>>

(***************************************************************************)
(* Rates, turnover frequencies and rate control.                           *)
(*                                                                         *)
(* Rates are integers: a rate constant times the coverages (in units of    *)
(* 1/MaxCvg) and pressures of a state, in units of                         *)
(* prefactor * 2^(-KOff) * MaxCvg^(-MaxOrder).                             *)
(***************************************************************************)
\* Gs_order = adsorbate_names + transition_state_names
Gs_order == adsorbate_names \o transition_state_names

\* perturbation_size, in energy units: the floor of the step is the larger
\* part of delta = max(|h*x|, h) for every energy of the model.
perturbation_size == 1

\* perturbation_direction='right'
perturbation_direction == "right"

\* list.index(x), counted from 0: the first position holding x.
py_index(seq, x) ==
    (CHOOSE i \in DOMAIN seq :
        seq[i] = x /\ \A j \in 1..(i - 1) : seq[j] # x) - 1

\* What get_rate_constants computes over a network, before it stores.
rate_constants_net(net, Emap) ==
    LET idx == DOMAIN net
        dG  == [i \in idx |-> get_reaction_energies(Emap, net[i])]
    IN  IF \E i \in idx : dG[i].raised
        THEN [raised |-> TRUE, Gaf |-> <<>>, Gar |-> <<>>,
              kfs |-> <<>>, krs |-> <<>>]
        ELSE [raised |-> FALSE,
              Gaf |-> [i \in idx |-> dG[i].f_barrier],
              Gar |-> [i \in idx |-> dG[i].r_barrier],
              kfs |-> [i \in idx |-> rate_constant(dG[i].f_barrier)],
              krs |-> [i \in idx |-> rate_constant(dG[i].r_barrier)]]

\* cvg_tuple2dict: adsorbate -> coverage, and the free site '*_s' -> what
\* the adsorbates leave of the site.
cvg_tuple2dict(cvgs_tuple) ==
    [k \in Range(adsorbate_names) \cup {E_key(s) : s \in Range(site_names)} |->
        IF \E j \in DOMAIN adsorbate_names : adsorbate_names[j] = k
        THEN cvgs_tuple[CHOOSE j \in DOMAIN adsorbate_names :
                            adsorbate_names[j] = k]
        ELSE MaxCvg - cvgs_tuple[1] - cvgs_tuple[2]]

\* The factor of one species term in a rate expression: "*theta['name']" for
\* a free site or an adsorbate, "*p['name']" for a gas, "**n" when n # 1.
sp_expr(sp) ==
    LET stoichiometry == split_species(sp)[1]
        species_name  == split_species(sp)[2]
    IN  IF species_name \in {E_key(s) : s \in Range(site_names)}
        THEN [dict |-> "theta", key |-> species_name,
              power |-> stoichiometry]
        ELSE IF species_type(species_name) = "gas"
        THEN [dict |-> "p", key |-> species_name, power |-> stoichiometry]
        ELSE [dict |-> "theta", key |-> species_name,
              power |-> stoichiometry]

\* list2string: 'kf[idx]' or 'kr[idx]' times the factors of the state.
list2string(idx, sp_list, direction) ==
    [k |-> IF direction = "f" THEN "kf" ELSE "kr",
     k_idx |-> idx,
     factors |-> [j \in DOMAIN sp_list |-> sp_expr(sp_list[j])]]

\* idx = rxns_list.index(rxn_list), for the reaction at position pos.
rxn_index(rxns, pos) == py_index(rxns, rxns[pos])

get_elementary_rate_expression(self_rxns, pos) ==
    LET idx == rxn_index(self_rxns, pos)
        elementary_rxn_list == self_rxns[pos]
    IN  [f_expr |-> list2string(idx, py_getitem(elementary_rxn_list, 0), "f"),
         r_expr |-> list2string(idx, py_getitem(elementary_rxn_list, -1),
                                "r")]

\* get_rate_expressions(self.rxns_list): 'rfs[idx] = ' + f_expr and
\* 'rrs[idx] = ' + r_expr, one pair per position of the list.
rate_expressions_of(self_rxns) ==
    [f |-> [pos \in DOMAIN self_rxns |->
              [assigns |-> rxn_index(self_rxns, pos),
               expr |-> get_elementary_rate_expression(self_rxns, pos)
                            .f_expr]],
     r |-> [pos \in DOMAIN self_rxns |->
              [assigns |-> rxn_index(self_rxns, pos),
               expr |-> get_elementary_rate_expression(self_rxns, pos)
                            .r_expr]]]

\* The number of coverage factors of a state.
theta_order(state) ==
    LET RECURSIVE upto(_)
        upto(j) == IF j = 0 THEN 0
                   ELSE (IF sp_expr(state[j]).dict = "theta"
                         THEN sp_expr(state[j]).power ELSE 0) + upto(j - 1)
    IN  upto(Len(state))

MaxOrder == MaxOf({theta_order(state) : state \in AllStates})

\* The value of a right-hand side read without its rate constant.
eval_expr_no_k(expr, kf, kr, theta, pdict) ==
    LET RECURSIVE prod(_)
        prod(j) ==
            IF j = 0 THEN 1
            ELSE LET fac == expr.factors[j]
                     val == IF fac.dict = "theta" THEN theta[fac.key]
                            ELSE pdict[fac.key]
                 IN  (val ^ fac.power) * prod(j - 1)
    IN  prod(Len(expr.factors)) * MaxCvg ^ MaxOrder

\* The value of the right-hand side of one rate expression.
eval_expr(expr, kf, kr, theta, pdict) ==
    LET RECURSIVE prod(_)
        prod(j) ==
            IF j = 0 THEN 1
            ELSE LET fac == expr.factors[j]
                     val == IF fac.dict = "theta" THEN theta[fac.key]
                            ELSE pdict[fac.key]
                 IN  (val ^ fac.power) * prod(j - 1)
        order == LET RECURSIVE cnt(_)
                     cnt(j) == IF j = 0 THEN 0
                               ELSE (IF expr.factors[j].dict = "theta"
                                     THEN expr.factors[j].power ELSE 0)
                                    + cnt(j - 1)
                 IN  cnt(Len(expr.factors))
        k == IF expr.k = "kf" THEN kf[expr.k_idx + 1] ELSE kr[expr.k_idx + 1]
    IN  k * prod(Len(expr.factors)) * MaxCvg ^ (MaxOrder - order)

\* rfs = [0]*n, then exec of the expressions in list order: a later
\* assignment to the same index overwrites an earlier one.
exec_exprs(exprs_list, n, kf, kr, theta, pdict) ==
    [i \in 1..n |->
        IF \E pos \in DOMAIN exprs_list : exprs_list[pos].assigns = i - 1
        THEN LET last == CHOOSE pos \in DOMAIN exprs_list :
                            /\ exprs_list[pos].assigns = i - 1
                            /\ \A q \in DOMAIN exprs_list :
                                  exprs_list[q].assigns = i - 1 => q <= pos
             IN  eval_expr(exprs_list[last].expr, kf, kr, theta, pdict)
        ELSE 0]

\* net_rates = tuple([rf - rr for rf, rr in zip(rfs, rrs)])
net_rates_of(rfs, rrs) ==
    [i \in 1..Min2(Len(rfs), Len(rrs)) |-> rfs[i] - rrs[i]]

\* The stoichiometry of a species in a state (0 when it is not there).
stoichiometry_in(state, name) ==
    LET RECURSIVE upto(_)
        upto(j) == IF j = 0 THEN 0
                   ELSE (IF split_species(state[j])[2] = name
                         THEN split_species(state[j])[1] ELSE 0) + upto(j - 1)
    IN  upto(Len(state))

\* owner.gas_matrix: reaction x gas, the gas produced minus the gas consumed.
gas_matrix(net) ==
    [i \in DOMAIN net |->
        [g \in DOMAIN gas_names |->
            stoichiometry_in(py_getitem(net[i], -1), gas_names[g])
                - stoichiometry_in(py_getitem(net[i], 0), gas_names[g])]]

abs(n) == IF n < 0 THEN 0 - n ELSE n

\* tof_list = (rate_vector*abs(gas_matrix)).tolist()[0]
tof_list_of(net, rate_vector) ==
    LET m == gas_matrix(net)
        RECURSIVE dot(_, _)
        dot(g, i) == IF i = 0 THEN 0
                     ELSE rate_vector[i] * abs(m[i][g]) + dot(g, i - 1)
    IN  [g \in DOMAIN gas_names |-> dot(g, Len(net))]

\* The rate constants scaled by a common factor.
scaled(ks, c) == [i \in DOMAIN ks |-> c * ks[i]]

\* get_rates, get_net_rates and the TOF projection for given rate constants:
\* what get_cvg_tof computes after get_rate_constants.
cvg_tof_of(net, exprs, kf, kr, pdict, cvgs) ==
    LET theta == cvg_tuple2dict(cvgs)
        rfs   == exec_exprs(exprs.f, Len(net), kf, kr, theta, pdict)
        rrs   == exec_exprs(exprs.r, Len(net), kf, kr, theta, pdict)
        net_r == net_rates_of(rfs, rrs)
    IN  [rfs |-> rfs, rrs |-> rrs, net_rates |-> net_r,
         tof |-> tof_list_of(net, net_r)]

\* The names Gs does not reach set to 0.
E_with_Gs_padded(Emap, Gs) ==
    LET set == Range(Gs_order)
    IN  [k \in DOMAIN Emap \cup set |->
            IF k \in set
            THEN LET j == CHOOSE j \in DOMAIN Gs_order : Gs_order[j] = k
                 IN  IF j <= Len(Gs) THEN Gs[j] ELSE 0
            ELSE Emap[k]]

\* for intermediate, G in zip(Gs_order, Gs): self.E[intermediate] = G
E_with_Gs(Emap, Gs) ==
    LET n    == Min2(Len(Gs_order), Len(Gs))
        set  == {Gs_order[j] : j \in 1..n}
    IN  [k \in DOMAIN Emap \cup set |->
            IF k \in set
            THEN Gs[CHOOSE j \in 1..n : Gs_order[j] = k]
            ELSE Emap[k]]

\* The entries the logger keeps of what it is handed.
kept(kind, entries) == IF kind = "record" THEN entries ELSE <<>>

\* The entries of one get_tof with 'tofs' handed over first.
tof_entries_tofs_first(r) ==
    << [name |-> "tofs", value |-> r.tof],
       [name |-> "rates", value |-> <<r.rfs, r.rrs>>],
       [name |-> "net_rates", value |-> r.net_rates] >>

\* What one get_tof hands to the logger: get_rates archives 'rates',
\* get_net_rates 'net_rates', then get_tof itself 'tofs'.
tof_entries(r) ==
    << [name |-> "rates", value |-> <<r.rfs, r.rrs>>],
       [name |-> "net_rates", value |-> r.net_rates],
       [name |-> "tofs", value |-> r.tof] >>

\* What get_tof computes once E holds Emap: rate constants, rates, net
\* rates and TOF at the coverages of the steady state.
tof_result(net, exprs, Emap, pdict, cvgs) ==
    LET rc == rate_constants_net(net, Emap)
    IN  cvg_tof_of(net, exprs, rc.kfs, rc.krs, pdict, cvgs)

\* What the solver variables other than E and the stored rate constants do
\* in an operation of this section that leaves them alone.
solver_rest ==
    <<hasdata, species_definitions, p, frequencies, has_data, energy_correction,
      has_symbols, state_energy_dict, delta_G_syms>>

\* get_rate_expressions(self.rxns_list)
get_rate_expressions ==
    LET exprs == rate_expressions_of(network)
    IN  /\ rate_expressions' = <<exprs>>
        /\ returned' = <<exprs>>
        /\ archived' = <<>> /\ tof_calls' = <<>>
        /\ last_call' = [op |-> "get_rate_expressions", raised |-> "None"]
        /\ UNCHANGED <<E, _Gaf, _Gar, _kfs, _krs, solver_rest>>
        /\ UNCHANGED <<network, steady_state_cvg, logger_kind, _rates,
                       net_rates, reversibilities, tof>>

\* get_rates(self.rate_expressions, cvgs_tuple)
get_rates(cvgs_tuple) ==
    /\ rate_expressions # <<>>
    /\ LET rc == rate_constants_net(network, E)
       IN  /\ store_rate_constants(rc)
           /\ IF rc.raised
              THEN /\ last_call' = [op |-> "get_rates", raised |-> "KeyError"]
                   /\ returned' = <<>> /\ archived' = <<>>
                   /\ UNCHANGED _rates
              ELSE /\ \E r \in {cvg_tof_of(network, rate_expressions[1],
                                            _kfs', _krs', p, cvgs_tuple)} :
                        _rates' = <<[rfs |-> r.rfs, rrs |-> r.rrs]>>
                   /\ archived' =
                        kept(logger_kind,
                             << [name |-> "rates",
                                 value |-> <<_rates'[1].rfs,
                                             _rates'[1].rrs>>] >>)
                   /\ returned' = << <<_rates'[1].rfs, _rates'[1].rrs>> >>
                   /\ last_call' = [op |-> "get_rates", raised |-> "None"]
    /\ tof_calls' = <<>>
    /\ UNCHANGED <<E, solver_rest>>
    /\ UNCHANGED <<network, steady_state_cvg, logger_kind, rate_expressions,
                   net_rates, reversibilities, tof>>

\* get_net_rates(rfs, rrs)
get_net_rates(rfs, rrs) ==
    LET net_r == net_rates_of(rfs, rrs)
    IN  /\ net_rates' = <<net_r>>
        /\ archived' =
             kept(logger_kind, << [name |-> "net_rates", value |-> net_r] >>)
        /\ returned' = <<net_r>>
        /\ tof_calls' = <<>>
        /\ last_call' = [op |-> "get_net_rates", raised |-> "None"]
        /\ UNCHANGED <<E, _Gaf, _Gar, _kfs, _krs, solver_rest>>
        /\ UNCHANGED <<network, steady_state_cvg, logger_kind,
                       rate_expressions, _rates, reversibilities, tof>>

\* A length check that lets lists of different lengths through.
lengths_differ_never(rfs, rrs) == FALSE

\* if len(rfs) != len(rrs)
lengths_differ(rfs, rrs) == Len(rfs) # Len(rrs)

\* float(rate_tuple[1]/rate_tuple[0]): the quotient rr/rf, kept as the
\* fraction num/den; it is 1.0 exactly when num = den.
reversibility(rf, rr) == [num |-> rr, den |-> rf]

\* get_reversibilities(rfs, rrs)
get_reversibilities(rfs, rrs) ==
    /\ IF lengths_differ(rfs, rrs)
       THEN /\ last_call' = [op |-> "get_reversibilities",
                             raised |-> "ValueError"]
            /\ returned' = <<>> /\ archived' = <<>>
            /\ UNCHANGED reversibilities
       ELSE IF \E i \in 1..Min2(Len(rfs), Len(rrs)) : rfs[i] = 0
       THEN /\ last_call' = [op |-> "get_reversibilities",
                             raised |-> "ZeroDivisionError"]
            /\ returned' = <<>> /\ archived' = <<>>
            /\ UNCHANGED reversibilities
       ELSE LET revs == [i \in 1..Min2(Len(rfs), Len(rrs)) |->
                            reversibility(rfs[i], rrs[i])]
            IN  /\ reversibilities' = <<revs>>
                /\ archived' =
                     kept(logger_kind,
                          << [name |-> "reversibilities", value |-> revs] >>)
                /\ returned' = <<revs>>
                /\ last_call' = [op |-> "get_reversibilities",
                                 raised |-> "None"]
    /\ tof_calls' = <<>>
    /\ UNCHANGED <<E, _Gaf, _Gar, _kfs, _krs, solver_rest>>
    /\ UNCHANGED <<network, steady_state_cvg, logger_kind, rate_expressions,
                   _rates, net_rates, tof>>

\* get_tof(Gs)
get_tof(Gs) ==
    /\ E' = E_with_Gs(E, Gs)
    /\ tof_calls' = <<Gs>>
    /\ LET rc == rate_constants_net(network, E')
       IN  /\ store_rate_constants(rc)
           /\ IF rc.raised
              THEN /\ last_call' = [op |-> "get_tof", raised |-> "KeyError"]
                   /\ returned' = <<>> /\ archived' = <<>>
                   /\ UNCHANGED <<rate_expressions, _rates, net_rates, tof>>
              ELSE /\ rate_expressions' =
                        IF rate_expressions = <<>>
                        THEN <<rate_expressions_of(network)>>
                        ELSE rate_expressions
                   /\ \E r \in {cvg_tof_of(network, rate_expressions'[1],
                                            _kfs', _krs', p,
                                            steady_state_cvg)} :
                        /\ _rates' = <<[rfs |-> r.rfs, rrs |-> r.rrs]>>
                        /\ net_rates' = <<r.net_rates>>
                        /\ tof' = <<r.tof>>
                   /\ archived' =
                        kept(logger_kind,
                             tof_entries([rfs |-> _rates'[1].rfs,
                                          rrs |-> _rates'[1].rrs,
                                          net_rates |-> net_rates'[1],
                                          tof |-> tof'[1]]))
                   /\ returned' = tof'
                   /\ last_call' = [op |-> "get_tof", raised |-> "None"]
    /\ UNCHANGED solver_rest
    /\ UNCHANGED <<network, steady_state_cvg, logger_kind, reversibilities>>

\* get_cvg_tof(cvgs)
get_cvg_tof(cvgs) ==
    LET rc == rate_constants_net(network, E)
    IN  /\ store_rate_constants(rc)
        /\ IF rc.raised \/ rate_expressions = <<>>
           THEN /\ last_call' =
                     [op |-> "get_cvg_tof",
                      raised |-> IF rc.raised THEN "KeyError"
                                 ELSE "AttributeError"]
                /\ returned' = <<>> /\ archived' = <<>>
                /\ UNCHANGED <<_rates, net_rates, tof>>
           ELSE /\ \E r \in {cvg_tof_of(network, rate_expressions[1],
                                         _kfs', _krs', p, cvgs)} :
                     /\ _rates' = <<[rfs |-> r.rfs, rrs |-> r.rrs]>>
                     /\ net_rates' = <<r.net_rates>>
                     /\ tof' = <<r.tof>>
                     /\ archived' = kept(logger_kind, tof_entries(r))
                /\ returned' = tof'
                /\ last_call' = [op |-> "get_cvg_tof", raised |-> "None"]
        /\ tof_calls' = <<>>
        /\ UNCHANGED <<E, solver_rest>>
        /\ UNCHANGED <<network, steady_state_cvg, logger_kind,
                       rate_expressions, reversibilities>>

\* get_intermediates_Gs: [self.E[name] for name in Gs_order]
get_intermediates_Gs(Emap) ==
    IF \E j \in DOMAIN Gs_order : Gs_order[j] \notin DOMAIN Emap
    THEN [raised |-> TRUE, Gs |-> <<>>]
    ELSE [raised |-> FALSE, Gs |-> [j \in DOMAIN Gs_order |-> Emap[Gs_order[j]]]]

\* delta = max(abs(h*xj), h): with the energies of the model the floor h.
delta_of(h, xj) == h

\* The sign of the step of coordinate j when adsorbates are stepped forward
\* and transition states backward.
step_sign_classified(direction, j) ==
    IF j <= Len(adsorbate_names) THEN 1 ELSE 0 - 1

\* The sign of the step of coordinate j: one direction for every coordinate.
step_sign(direction, j) == IF direction = "right" THEN 1 ELSE 0 - 1

\* numerical_jacobian(f, x, h, direction): the points f is evaluated at
\* after f(x), one per coordinate.
jacobian_points(x, h, direction) ==
    [j \in DOMAIN x |->
        [x EXCEPT ![j] = x[j] + step_sign(direction, j) * delta_of(h, x[j])]]

\* The evaluations of the Jacobian alone.
rate_control_calls_no_final(Gs, h, direction) ==
    <<Gs>> \o jacobian_points(Gs, h, direction)

\* The get_tof calls of get_rate_control: f(x) and f(xj) for every j inside
\* numerical_jacobian, then r = self.get_tof(Gs).
rate_control_calls(Gs, h, direction) ==
    <<Gs>> \o jacobian_points(Gs, h, direction) \o <<Gs>>

\* E after the first k of a list of get_tof calls.
RECURSIVE E_after(_, _, _)
E_after(calls, k, Emap) ==
    IF k = 0 THEN Emap
    ELSE E_with_Gs(E_after(calls, k - 1, Emap), calls[k])

\* DTRC = diag([-kT/tof for tof in r])*drdG, each entry kept as the fraction
\* num/den in units of kT: -(f(xj)[i] - f(x)[i]) / (r[i]*(+-delta)).
DTRC_of(tofs, r, x, h, direction) ==
    [i \in DOMAIN r |->
        [j \in DOMAIN x |->
            [num |-> 0 - (tofs[j + 1][i] - tofs[1][i]),
             den |-> r[i] * step_sign(direction, j) * delta_of(h, x[j])]]]

\* get_rate_control(): get_tof at Gs and at every point of the Jacobian,
\* then get_tof(Gs) once more, then DTRC.  E has the intermediates, so only
\* a gas or site without energy makes get_tof raise, and then the first one.
get_rate_control ==
    LET g == get_intermediates_Gs(E)
    IN  IF g.raised \/ rate_constants_net(network, E).raised
        THEN /\ last_call' = [op |-> "get_rate_control",
                              raised |-> "KeyError"]
             /\ returned' = <<>> /\ archived' = <<>>
             /\ tof_calls' = IF g.raised THEN <<>> ELSE <<g.Gs>>
             /\ UNCHANGED <<E, _Gaf, _Gar, _kfs, _krs, solver_rest>>
             /\ UNCHANGED <<network, steady_state_cvg, logger_kind,
                            rate_expressions, _rates, net_rates,
                            reversibilities, tof>>
        ELSE /\ tof_calls' = rate_control_calls(g.Gs, perturbation_size,
                                                perturbation_direction)
             /\ E' = E_after(tof_calls', Len(tof_calls'), E)
             /\ store_rate_constants(rate_constants_net(network, E'))
             /\ rate_expressions' =
                  IF rate_expressions = <<>>
                  THEN <<rate_expressions_of(network)>>
                  ELSE rate_expressions
             /\ \E results \in
                    {[k \in DOMAIN tof_calls' |->
                        tof_result(network, rate_expressions'[1],
                                   E_after(tof_calls', k, E), p,
                                   steady_state_cvg)]} :
                  /\ _rates' = <<[rfs |-> results[Len(results)].rfs,
                                  rrs |-> results[Len(results)].rrs]>>
                  /\ net_rates' = <<results[Len(results)].net_rates>>
                  /\ tof' = <<results[Len(results)].tof>>
                  /\ \E entries \in
                         {[n \in 1..(3 * Len(results)) |->
                             tof_entries(results[(n + 2) \div 3])
                                 [((n - 1) % 3) + 1]]} :
                       IF \E i \in DOMAIN tof'[1] : tof'[1][i] = 0
                       THEN /\ last_call' = [op |-> "get_rate_control",
                                             raised |-> "ZeroDivisionError"]
                            /\ returned' = <<>>
                            /\ archived' = kept(logger_kind, entries)
                       ELSE /\ returned' =
                                 << DTRC_of([k \in DOMAIN results |->
                                               results[k].tof],
                                            tof'[1], g.Gs, perturbation_size,
                                            perturbation_direction) >>
                            /\ archived' =
                                 kept(logger_kind,
                                      entries \o
                                        << [name |-> "DTRC",
                                            value |-> returned'[1]] >>)
                            /\ last_call' = [op |-> "get_rate_control",
                                             raised |-> "None"]
             /\ UNCHANGED solver_rest
             /\ UNCHANGED <<network, steady_state_cvg, logger_kind,
                            reversibilities>>

\* The corrections the owner's corrector gives a gas.
Corrections == {1}

\* The corrections added only while energy_correction is not set.
corrected_E_once(Emap, correction_dict, flag) ==
    IF flag THEN Emap
    ELSE [k \in DOMAIN Emap |->
             IF k \in DOMAIN correction_dict
             THEN Emap[k] + correction_dict[k] ELSE Emap[k]]

\* for gas_name in correction_dict:
\*     self.E[gas_name] += correction_dict[gas_name]
\* whatever energy_correction is.
corrected_E(Emap, correction_dict, flag) ==
    [k \in DOMAIN Emap |->
        IF k \in DOMAIN correction_dict
        THEN Emap[k] + correction_dict[k] ELSE Emap[k]]

\* correct_energies(): mode is owner.gas_thermo_mode, correction_dict what
\* owner.corrector.shomate_gas() returns.
correct_energies(mode, correction_dict) ==
    /\ \A gas_name \in DOMAIN correction_dict :
          gas_name \in DOMAIN E =>
              E[gas_name] + correction_dict[gas_name] \in Energies
    /\ IF mode # "shomate_gas"
       THEN \* correction_dict is not bound
            /\ last_call' = [op |-> "correct_energies",
                             raised |-> "UnboundLocalError"]
            /\ returned' = <<>>
            /\ UNCHANGED <<E, energy_correction>>
       ELSE IF \E gas_name \in DOMAIN correction_dict :
                  gas_name \notin DOMAIN E
       THEN \* the dict is walked in its own order up to the missing key
            /\ \E done \in SUBSET (DOMAIN correction_dict \cap DOMAIN E) :
                  E' = [k \in DOMAIN E |->
                           IF k \in done THEN E[k] + correction_dict[k]
                           ELSE E[k]]
            /\ last_call' = [op |-> "correct_energies",
                             raised |-> "KeyError"]
            /\ returned' = <<>>
            /\ UNCHANGED energy_correction
       ELSE /\ E' = corrected_E(E, correction_dict, energy_correction)
            /\ energy_correction' = TRUE
            /\ returned' = <<E'>>
            /\ last_call' = [op |-> "correct_energies", raised |-> "None"]
    /\ archived' = <<>> /\ tof_calls' = <<>>
    /\ UNCHANGED <<hasdata, species_definitions, p, frequencies, has_data,
                   _Gaf, _Gar, _kfs, _krs, has_symbols, state_energy_dict,
                   delta_G_syms>>
    /\ UNCHANGED <<network, steady_state_cvg, logger_kind, rate_expressions,
                   _rates, net_rates, reversibilities, tof>>

(***************************************************************************)
(* classified_numerical_jacobian(f, x, h): f is a function object of a     *)
(* small family, x and h are integers in the units of the energies.  The   *)
(* entries of the Jacobian are kept as fractions num/den.                  *)
(***************************************************************************)
\* The functions f the Jacobian is taken of.
JacFunctions == {"linear", "products"}

\* The coefficients of the linear f.
JacCoef == << <<1, 2, 0 - 1>>, <<0 - 1, 0, 1>> >>

\* f(x)
jac_apply(fobj, x) ==
    IF fobj = "linear"
    THEN [i \in DOMAIN JacCoef |->
             JacCoef[i][1] * x[1] + JacCoef[i][2] * x[2] + JacCoef[i][3] * x[3]]
    ELSE <<x[1] * x[2], x[2] * x[3]>>

\* delta = abs(h*xj[j]); delta = max(delta, h)
classified_delta(h, xj) == Max2(abs(h * xj), h)

\* inter_num = len(self._owner.adsorbate_names); the test j <= inter_num - 1
\* for the 0-based j.
is_intermediate(j) == j - 1 <= Len(adsorbate_names) - 1

\* xj[j] += delta, or xj[j] -= delta
classified_step(j, delta) == IF is_intermediate(j) THEN delta ELSE 0 - delta

\* The divisor delta for every coordinate.
classified_divisor_unsigned(j, delta) == delta

\* The divisor of the difference quotient: (delta), or (-delta)
classified_divisor(j, delta) == IF is_intermediate(j) THEN delta ELSE 0 - delta

\* The points f is evaluated at after f(x), one per column.
classified_points(x, h) ==
    [j \in DOMAIN x |->
        [x EXCEPT ![j] = x[j] + classified_step(j, classified_delta(h, x[j]))]]

\* J[i, j] = Jj[i], Jj = (f(xj) - fx)/(+-delta)
classified_jacobian_of(fobj, x, h) ==
    LET f_x == jac_apply(fobj, x)
        pts == classified_points(x, h)
    IN  [i \in DOMAIN f_x |->
            [j \in DOMAIN x |->
                [num |-> jac_apply(fobj, pts[j])[i] - f_x[i],
                 den |-> classified_divisor(j, classified_delta(h, x[j]))]]]

\* classified_numerical_jacobian(f, x, h); the column index it prints on
\* standard output is not kept.
classified_numerical_jacobian(fobj, x, h) ==
    /\ tof_calls' = <<x>> \o classified_points(x, h)
    /\ returned' = <<classified_jacobian_of(fobj, x, h)>>
    /\ last_call' = [op |-> "classified_numerical_jacobian", raised |-> "None"]
    /\ UNCHANGED <<E, solver_rest, _Gaf, _Gar, _kfs, _krs>>
    /\ UNCHANGED <<network, steady_state_cvg, logger_kind, rate_expressions,
                   _rates, net_rates, reversibilities, tof, archived>>
    /\ UNCHANGED newton_vars

(***************************************************************************)
(* Symbolic rates and TOF: the sympy expressions and their values under    *)
(* the substitution dict of get_subs_dict.                                 *)
(***************************************************************************)
\* classify_adsorbates: site name -> the adsorbates whose species
\* definition names that site, in the order of adsorbate_names.
site_of(adsorbate_name) == site_names[1]

\* The lists every adsorbate is appended to the list of a site other than
\* its own where there is one.
classify_adsorbates_of_misfiled(sites, ads, site_map) ==
    [raised |-> \E a \in Range(ads) : site_map[a] \notin Range(sites),
     dict |-> [site_name \in Range(sites) |->
                 SelectSeq(ads, LAMBDA a : site_map[a] # site_name)]]

\* classify_adsorbates() of an owner with the site names sites, the
\* adsorbate names ads and species_definitions[a]['site'] = site_map[a]:
\* an empty list per site, then every adsorbate appended to the list of its
\* site in the order of ads; KeyError for a site that is not a site name.
classify_adsorbates_of(sites, ads, site_map) ==
    [raised |-> \E a \in Range(ads) : site_map[a] \notin Range(sites),
     dict |-> [site_name \in Range(sites) |->
                 SelectSeq(ads, LAMBDA a : site_map[a] = site_name)]]

\* fsite_theta_sym of get_data_symbols for classified_adsorbates =
\* classified and species_definitions[site]['total'] = totals[site]: per
\* site the expression total - theta_a - ..., kept as its constant and the
\* coefficient of every coverage symbol.
fsite_theta_sym_of(sites, ads, classified, totals) ==
    [k \in DOMAIN sites |->
        LET lst == classified[sites[k]]
        IN  [const |-> totals[sites[k]],
             coef |-> [a \in Range(ads) |->
                         0 - Cardinality({j \in DOMAIN lst :
                               ads[py_index(ads, lst[j]) + 1] = a})]]]

\* classify_adsorbates() as called on such an owner: returns the dict.
classify_adsorbates_on(sites, ads, site_map) ==
    /\ \E c \in {classify_adsorbates_of(sites, ads, site_map)} :
         /\ returned' = IF c.raised THEN <<>> ELSE <<c.dict>>
         /\ last_call' = [op |-> "classify_adsorbates",
                          raised |-> IF c.raised THEN "KeyError" ELSE "None"]
    /\ tof_calls' = <<>>
    /\ UNCHANGED <<E, solver_rest, _Gaf, _Gar, _kfs, _krs>>
    /\ UNCHANGED <<network, steady_state_cvg, logger_kind, rate_expressions,
                   _rates, net_rates, reversibilities, tof, archived>>
    /\ UNCHANGED newton_vars

\* The free-site part of get_data_symbols() on a solver constructed on
\* such an owner; returned holds self.fsite_theta_sym.
get_fsite_theta_sym(sites, ads, site_map, totals) ==
    /\ \E c \in {classify_adsorbates_of(sites, ads, site_map)} :
         /\ ~c.raised
         /\ returned' = <<fsite_theta_sym_of(sites, ads, c.dict, totals)>>
    /\ last_call' = [op |-> "get_fsite_theta_sym", raised |-> "None"]
    /\ tof_calls' = <<>>
    /\ UNCHANGED <<E, solver_rest, _Gaf, _Gar, _kfs, _krs>>
    /\ UNCHANGED <<network, steady_state_cvg, logger_kind, rate_expressions,
                   _rates, net_rates, reversibilities, tof, archived>>
    /\ UNCHANGED newton_vars

\* self.classified_adsorbates of the solver of the model.
classify_adsorbates ==
    classify_adsorbates_of(
        site_names, adsorbate_names,
        [a \in Range(adsorbate_names) |-> site_of(a)]).dict

\* species_definitions[site_name]['total'], a full site.
site_total(site_name) == MaxCvg

\* fsite_theta_sym under get_theta_subs_dict: total minus the coverage of
\* every adsorbate of classified_adsorbates[site_name].
fsite_theta_value(site_name, cvgs_tuple) ==
    LET ads == classify_adsorbates[site_name]
        RECURSIVE minus(_)
        minus(j) ==
            IF j = 0 THEN site_total(site_name)
            ELSE minus(j - 1)
                   - cvgs_tuple[py_index(adsorbate_names, ads[j]) + 1]
    IN  minus(Len(ads))

\* The value of extract_symbol(species_name, symbol_type) for one species
\* term of a state, and whether it counts as a coverage.
sp_data_value(sp, cvgs_tuple, pdict) ==
    LET species_name == split_species(sp)[2]
    IN  IF species_name \in {E_key(site) : site \in Range(site_names)}
        THEN [cvg |-> TRUE,
              value |-> fsite_theta_value(
                            CHOOSE site \in Range(site_names) :
                                E_key(site) = species_name, cvgs_tuple)]
        ELSE IF species_type(species_name) = "gas"
        THEN [cvg |-> FALSE, value |-> pdict[species_name]]
        ELSE [cvg |-> TRUE,
              value |-> cvgs_tuple[py_index(adsorbate_names, species_name)
                                     + 1]]

\* One rate symbol of get_single_rate_sym under the substitution: the rate
\* constant times sp_data_sym**stoichiometry over the terms of the state,
\* in the units of the numeric rates.
rate_sym_value(k, state, cvgs_tuple, pdict) ==
    LET RECURSIVE prod(_)
        prod(j) ==
            IF j = 0 THEN 1
            ELSE sp_data_value(state[j], cvgs_tuple, pdict).value
                    ^ split_species(state[j])[1] * prod(j - 1)
        RECURSIVE order(_)
        order(j) ==
            IF j = 0 THEN 0
            ELSE (IF sp_data_value(state[j], cvgs_tuple, pdict).cvg
                  THEN split_species(state[j])[1] ELSE 0) + order(j - 1)
    IN  k * prod(Len(state)) * MaxCvg ^ (MaxOrder - order(Len(state)))

\* kf_syms, kr_syms under get_G_subs_dict: k_B*T/h*E**(-delta_G/(k_B*T))
\* with the symbolic barriers evaluated under E.
rate_constant_sym_values(dG_syms, Emap) ==
    [kfs |-> [i \in DOMAIN dG_syms.f |->
                rate_constant(eval_sym(dG_syms.f[i], Emap))],
     krs |-> [i \in DOMAIN dG_syms.r |->
                rate_constant(eval_sym(dG_syms.r[i], Emap))]]

\* net_rate_syms under the substitution: rf_sym - rr_sym per reaction, the
\* rate constants taken at rxns_list.index(elementary_rxn_list).
net_rate_sym_values(net, dG_syms, Emap, cvgs_tuple, pdict) ==
    LET ks == rate_constant_sym_values(dG_syms, Emap)
    IN  [pos \in DOMAIN net |->
            rate_sym_value(ks.kfs[rxn_index(net, pos) + 1],
                           py_getitem(net[pos], 0), cvgs_tuple, pdict)
              - rate_sym_value(ks.krs[rxn_index(net, pos) + 1],
                               py_getitem(net[pos], -1), cvgs_tuple, pdict)]

\* get_tof_syms under the substitution: rate_syms_vect*(-gas_matrix).
tof_sym_values(net, net_rate_values) ==
    LET m == gas_matrix(net)
        RECURSIVE dot(_, _)
        dot(g, i) == IF i = 0 THEN 0
                     ELSE net_rate_values[i] * (0 - m[i][g]) + dot(g, i - 1)
    IN  [g \in DOMAIN gas_names |-> dot(g, Len(net))]

\* What get_delta_G_symbols builds from the owner's state_energy_dict (made
\* from E when the owner has none yet).
delta_G_syms_of(sed_attr, Emap) ==
    LET sed  == IF sed_attr = <<>> THEN get_state_energy_dict(Emap)
                ELSE sed_attr[1]
        syms == [i \in RxnIdx |->
                    get_single_delta_G_symbols(sed, rxns_list[i])]
    IN  [sed |-> sed,
         syms |-> [f |-> [i \in RxnIdx |-> syms[i][1]],
                   r |-> [i \in RxnIdx |-> syms[i][2]]]]

\* get_rate_constant_syms when kf_syms does not exist yet: it builds
\* delta_Gf_syms / delta_Gr_syms unless they exist.
get_rate_constant_syms ==
    IF delta_G_syms # <<>>
    THEN UNCHANGED <<state_energy_dict, delta_G_syms>>
    ELSE \E built \in {delta_G_syms_of(state_energy_dict, E)} :
            /\ state_energy_dict' = <<built.sed>>
            /\ delta_G_syms' = <<built.syms>>

\* The solver attributes the symbolic evaluations leave alone.
sym_frame ==
    <<hasdata, species_definitions, p, E, frequencies, has_data, energy_correction,
      _Gaf, _Gar, _kfs, _krs, has_symbols, network, steady_state_cvg,
      logger_kind, rate_expressions, _rates, net_rates, reversibilities,
      tof>>

\* get_rate_constants_by_sym(): returns (kfs, krs), also kept as self.kfs
\* and self.krs.
get_rate_constants_by_sym ==
    /\ IF ~has_symbols
       THEN /\ last_call' = [op |-> "get_rate_constants_by_sym",
                             raised |-> "AttributeError"]
            /\ returned' = <<>>
            /\ UNCHANGED <<state_energy_dict, delta_G_syms>>
       ELSE /\ get_rate_constant_syms
            /\ IF \E k \in Keys : k \notin DOMAIN E
               THEN /\ last_call' = [op |-> "get_rate_constants_by_sym",
                                     raised |-> "KeyError"]
                    /\ returned' = <<>>
               ELSE /\ returned' =
                         <<rate_constant_sym_values(delta_G_syms'[1], E)>>
                    /\ last_call' = [op |-> "get_rate_constants_by_sym",
                                     raised |-> "None"]
    /\ archived' = <<>> /\ tof_calls' = <<>>
    /\ UNCHANGED sym_frame

\* get_tof_by_sym(cvgs_tuple)
get_tof_by_sym(cvgs_tuple) ==
    /\ IF ~has_symbols
       THEN /\ last_call' = [op |-> "get_tof_by_sym",
                             raised |-> "AttributeError"]
            /\ returned' = <<>>
            /\ UNCHANGED <<state_energy_dict, delta_G_syms>>
       ELSE /\ get_rate_constant_syms
            /\ IF \E k \in Keys : k \notin DOMAIN E
               THEN /\ last_call' = [op |-> "get_tof_by_sym",
                                     raised |-> "KeyError"]
                    /\ returned' = <<>>
               ELSE /\ \E net_rate_values \in
                          {net_rate_sym_values(network, delta_G_syms'[1], E,
                                               cvgs_tuple, p)} :
                         returned' =
                             <<tof_sym_values(network, net_rate_values)>>
                    /\ last_call' = [op |-> "get_tof_by_sym",
                                     raised |-> "None"]
    /\ archived' = <<>> /\ tof_calls' = <<>>
    /\ UNCHANGED sym_frame

(***************************************************************************)
(* Initial states and specifications.                                      *)
(***************************************************************************)
\* SolverBase.__init__ with owner.hasdata: get_data_dict(), then
\* get_rate_constants(); the formation energies are one of ens, the network
\* is net, and no rate attribute exists yet.
SolverConstructedOn(net, ens, cvgs, loggers) ==
    \E en \in ens :
        LET defs == [sp \in Species |-> species_data(sp, en[sp])]
            d    == data_dicts_of(defs)
            rc   == rate_constants_net(net, d.E)
        IN  /\ network = net
            /\ steady_state_cvg \in cvgs
            /\ logger_kind \in loggers
            /\ rate_expressions = <<>> /\ _rates = <<>>
            /\ net_rates = <<>> /\ reversibilities = <<>> /\ tof = <<>>
            /\ archived = <<>> /\ tof_calls = <<>> /\ returned = <<>>
            /\ hasdata = TRUE
            /\ species_definitions = defs
            /\ p = d.p /\ E = d.E /\ frequencies = d.frequencies
            /\ has_data = TRUE
            /\ energy_correction = FALSE
            /\ has_symbols = FALSE
            /\ _Gaf = rc.Gaf /\ _Gar = rc.Gar
            /\ _kfs = rc.kfs /\ _krs = rc.krs
            /\ state_energy_dict = <<>>
            /\ delta_G_syms = <<>>
            /\ last_call = [op |-> "__init__", raised |-> "None"]

\* The solver of the network of the owner, with a recording logger.
SolverConstructed(EnergySet) ==
    SolverConstructedOn(rxns_list, [Species -> EnergySet], {<<0, 0>>},
                        {"record"})

\* NewtonRoot.__init__ for the given function objects; no generator yet.
NewtonConstructed(fobj, Jobj, start, rc) ==
    /\ f = fobj /\ J = Jobj /\ self_x0 = start /\ real_constraint = rc
    /\ constraint = "unset"
    /\ gen = [i \in Iters |-> "none"]
    /\ iter_counter = [i \in Iters |-> 0]
    /\ x0 = [i \in Iters |-> start]
    /\ fx = [i \in Iters |-> <<0, 0>>]
    /\ fxnorm = [i \in Iters |-> 0]
    /\ cancel = [i \in Iters |-> FALSE]
    /\ yielded = [i \in Iters |-> <<>>]
    /\ next_raised = [i \in Iters |-> "None"]
    /\ printed = [i \in Iters |-> ""]

\* The root finder left alone while the rate constants are studied.
NewtonIdle ==
    NewtonConstructed([kind |-> "const", v |-> <<0, 0>>],
                      [kind |-> "identity", at |-> <<0, 0>>],
                      <<0, 0>>, "clamp")

\* Rate constants and symbolic barriers over every energy assignment.
Init == SolverConstructed(Energies) /\ NewtonIdle

Next ==
    \/ get_rate_constants /\ UNCHANGED <<tof_vars, newton_vars>>
    \/ get_data_symbols /\ UNCHANGED <<tof_vars, newton_vars>>
    \/ get_delta_G_symbols /\ UNCHANGED <<tof_vars, newton_vars>>

Spec == Init /\ [][Next]_vars

\* Reloading the owner's data after it lost species.
InitData == SolverConstructed(DataEnergies) /\ NewtonIdle

NextData ==
    \/ owner_drop_species /\ UNCHANGED <<tof_vars, newton_vars>>
    \/ get_data_dict /\ UNCHANGED <<tof_vars, newton_vars>>
    \/ get_rate_constants /\ UNCHANGED <<tof_vars, newton_vars>>

SpecData == InitData /\ [][NextData]_vars

\* The function objects a NewtonRoot is constructed with.
FObjects ==
    {[kind |-> "linear", v |-> v] : v \in Points}
        \cup {[kind |-> "const", v |-> c] :
                c \in ((-1..1) \X (-1..1)) \ {<<0, 0>>}}

JObjects ==
    {[kind |-> k, at |-> <<0, 0>>] : k \in {"identity", "swap", "zero"}}
        \cup {[kind |-> "singular_at", at |-> a] : a \in Feasible}

\* A root far outside the feasible set, and a Jacobian estimate turned by
\* 45 degrees: each Newton step halves the squared residual (the full step
\* is the strict minimum of the line search), so the walk goes on for more
\* than WarmUp iterations.
FarRoot == <<0 - 32, 0>>

SlowWalk ==
    [f |-> [kind |-> "linear", v |-> FarRoot],
     J |-> [kind |-> "rotate", at |-> <<0, 0>>],
     start |-> <<0, 0>>]

\* One generator of one NewtonRoot, driven by next() and restarted by iter().
InitNewton ==
    /\ SolverConstructed({0})
    /\ \/ \E fobj \in FObjects, Jobj \in JObjects, start \in Feasible,
             rc \in {"clamp", "none"} :
            NewtonConstructed(fobj, Jobj, start, rc)
       \/ \E rc \in {"clamp", "none"} :
            NewtonConstructed(SlowWalk.f, SlowWalk.J, SlowWalk.start, rc)

NextNewton ==
    \/ newton_iter(1) /\ UNCHANGED <<solver_vars, tof_vars>>
    \/ newton_next(1) /\ UNCHANGED <<solver_vars, tof_vars>>

SpecNewton == InitNewton /\ [][NextNewton]_vars

\* Two generators of one NewtonRoot, their next() calls interleaved: the
\* long walk, and a walk to a root inside or outside the feasible set.
InitNewton2 ==
    /\ SolverConstructed({0})
    /\ \/ \E rc \in {"clamp", "none"} :
            NewtonConstructed(SlowWalk.f, SlowWalk.J, SlowWalk.start, rc)
       \/ \E v \in {<<1, 1>>, <<MaxCvg + 1, 0>>}, Jobj \in JObjects,
             rc \in {"clamp", "none"} :
            NewtonConstructed([kind |-> "linear", v |-> v], Jobj, <<0, 0>>, rc)

NextNewton2 ==
    \E i \in Iters :
        \/ newton_iter(i) /\ UNCHANGED <<solver_vars, tof_vars>>
        \/ newton_next(i) /\ UNCHANGED <<solver_vars, tof_vars>>

SpecNewton2 == InitNewton2 /\ [][NextNewton2]_vars

\* The free-energy vectors of every length up to the number of names, and
\* one longer.
GsValues == {0 - 1, 0, MaxE}

GsOfLength(n) == [1..n -> GsValues]

GsShort ==
    UNION {GsOfLength(n) : n \in 0..Len(Gs_order)}
        \cup {[j \in 1..(Len(Gs_order) + 1) |-> MaxE]}

InitGs ==
    /\ SolverConstructedOn(rxns_list, [Species -> {0}], {<<0, 0>>}, {"record"})
    /\ NewtonIdle

NextGs == \E Gs \in GsShort : get_tof(Gs) /\ UNCHANGED newton_vars

SpecGs == InitGs /\ [][NextGs]_vars

\* The coverages the steady-state solver of the subclass may return.
SteadyCvgs == {<<0, 0>>, <<1, 1>>}

\* The free-energy vectors get_tof is called with: all 0, or one of the
\* adsorbate CO_s and the transition state raised to MaxE.
GsInputs ==
    {[j \in DOMAIN Gs_order |-> IF j = k THEN MaxE ELSE 0] :
        k \in {0, 1, Len(Gs_order)}}

\* The dicts the corrector returns: a correction of the first gas.
CorrectionDicts == [{gas_names[1]} -> Corrections]

\* The rate lists get_reversibilities is called with: the stored rates, the
\* stored rates with one list cut short, lists of rates that are not zero,
\* and lists of different lengths.
RateInputs ==
    {<< <<1, 2>>, <<2, 2>> >>, << <<1>>, <<1, 1>> >>, << <<1, 2>>, <<2>> >>}
        \cup (IF _rates = <<>> THEN {}
              ELSE {<<_rates[1].rfs, _rates[1].rrs>>,
                    <<_rates[1].rfs, Tail(_rates[1].rrs)>>})

\* Energy updates: reloads, corrections, TOF evaluations and rate control.
InitTof ==
    /\ SolverConstructedOn(rxns_list, [Species -> {0}], SteadyCvgs,
                           {"record"})
    /\ NewtonIdle

NextTof ==
    \/ get_data_dict /\ UNCHANGED <<tof_vars, newton_vars>>
    \/ get_rate_constants /\ UNCHANGED <<tof_vars, newton_vars>>
    \/ \E mode \in {"shomate_gas", "janaf_gas"},
          correction_dict \in CorrectionDicts :
            correct_energies(mode, correction_dict) /\ UNCHANGED newton_vars
    \/ \E Gs \in GsInputs : get_tof(Gs) /\ UNCHANGED newton_vars
    \/ get_rate_control /\ UNCHANGED newton_vars

SpecTof == InitTof /\ [][NextTof]_vars

\* What the logger is handed, with a logger that records and with one whose
\* archive_data does nothing.
InitArchive ==
    /\ SolverConstructedOn(rxns_list, [Species -> {0}], SteadyCvgs,
                           {"record", "noop"})
    /\ NewtonIdle

NextArchive ==
    \/ /\ _rates # <<>>
       /\ get_rates(steady_state_cvg)
       /\ UNCHANGED newton_vars
    \/ /\ _rates # <<>>
       /\ get_net_rates(_rates[1].rfs, _rates[1].rrs)
       /\ UNCHANGED newton_vars
    \/ \E rates \in RateInputs :
          get_reversibilities(rates[1], rates[2]) /\ UNCHANGED newton_vars
    \/ \E Gs \in GsInputs : get_tof(Gs) /\ UNCHANGED newton_vars
    \/ get_rate_control /\ UNCHANGED newton_vars

SpecArchive == InitArchive /\ [][NextArchive]_vars

\* The networks a solver is constructed on: the owner's, the owner's in the
\* other order, and one that lists the adsorption step twice.
Networks ==
    {rxns_list,
     <<rxns_list[2], rxns_list[1]>>,
     <<rxns_list[1], rxns_list[2], rxns_list[1]>>}

\* The formation energies of the rate specification: all equal, the
\* adsorbate CO_s raised, or the transition state raised.
RateEnergies ==
    {[sp \in Species |-> IF sp = raised_sp THEN MaxE ELSE 0] :
        raised_sp \in {"none", adsorbate_names[1],
                       transition_state_names[1]}}

\* The coverages the rates are asked at.
RateCvgs == {<<0, 0>>, <<1, 0>>, <<1, 1>>}

\* Rates, net rates, reversibilities and TOF at given coverages.
InitRates ==
    /\ \E net \in Networks :
          SolverConstructedOn(net, RateEnergies, {<<0, 0>>}, {"record"})
    /\ NewtonIdle

NextRates ==
    \/ get_rate_expressions /\ UNCHANGED newton_vars
    \/ \E cvgs \in RateCvgs : get_rates(cvgs) /\ UNCHANGED newton_vars
    \/ /\ _rates # <<>>
       /\ get_net_rates(_rates[1].rfs, _rates[1].rrs)
       /\ UNCHANGED newton_vars
    \/ \E rates \in RateInputs :
          get_reversibilities(rates[1], rates[2]) /\ UNCHANGED newton_vars
    \/ \E cvgs \in RateCvgs : get_cvg_tof(cvgs) /\ UNCHANGED newton_vars

SpecRates == InitRates /\ [][NextRates]_vars

\* The symbolic path next to the numeric one, under energy updates.
InitSym ==
    /\ SolverConstructedOn(rxns_list, [Species -> {0}], {<<0, 0>>},
                           {"record"})
    /\ NewtonIdle

NextSym ==
    \/ get_data_symbols /\ UNCHANGED <<tof_vars, newton_vars>>
    \/ get_delta_G_symbols /\ UNCHANGED <<tof_vars, newton_vars>>
    \/ get_rate_constants /\ UNCHANGED <<tof_vars, newton_vars>>
    \/ get_rate_constants_by_sym /\ UNCHANGED newton_vars
    \/ \E cvgs \in RateCvgs : get_tof_by_sym(cvgs) /\ UNCHANGED newton_vars
    \/ \E cvgs \in RateCvgs : get_cvg_tof(cvgs) /\ UNCHANGED newton_vars
    \/ \E Gs \in GsInputs : get_tof(Gs) /\ UNCHANGED newton_vars
    \/ \E correction_dict \in CorrectionDicts :
          correct_energies("shomate_gas", correction_dict)
            /\ UNCHANGED newton_vars

SpecSym == InitSym /\ [][NextSym]_vars

\* The formation energies of the data-load specification.
LoadEnergies == {[sp \in Species |-> e] : e \in {-1, 0}}

\* Loads of the owner's data, complete or not, and energy corrections.
InitLoad ==
    /\ SolverConstructedOn(rxns_list, LoadEnergies, {<<0, 0>>}, {"record"})
    /\ NewtonIdle

NextLoad ==
    \/ owner_drop_species /\ UNCHANGED <<tof_vars, newton_vars>>
    \/ owner_drop_field /\ UNCHANGED <<tof_vars, newton_vars>>
    \/ \E flag \in BOOLEAN :
          owner_set_hasdata(flag) /\ UNCHANGED <<tof_vars, newton_vars>>
    \/ get_data_dict /\ UNCHANGED <<tof_vars, newton_vars>>
    \/ \E mode \in {"shomate_gas", "janaf_gas"},
          correction_dict \in CorrectionDicts :
            correct_energies(mode, correction_dict) /\ UNCHANGED newton_vars

SpecLoad == InitLoad /\ [][NextLoad]_vars

\* The coordinates of x: one whose h-multiple exceeds h for every h > 1, the
\* 0 and one more.
JacCoords == {0 - (MaxE + 1), 0, MaxE}

JacPoints == JacCoords \X JacCoords \X JacCoords

\* The steps h.
JacSteps == 1..MaxLambda

InitJac ==
    /\ SolverConstructedOn(rxns_list, [Species -> {0}], {<<0, 0>>}, {"record"})
    /\ NewtonIdle

NextJac ==
    \E fobj \in JacFunctions, x \in JacPoints, h \in JacSteps :
        classified_numerical_jacobian(fobj, x, h)

SpecJac == InitJac /\ [][NextJac]_vars

\* Owners with one or two kinds of site and up to three adsorbates.
ClassifySites == {<<"s">>, <<"s", "t">>}

ClassifySiteNames == UNION {Range(sites) : sites \in ClassifySites}

ClassifyAdsorbates ==
    LET all == adsorbate_names \o <<"OH_t">>
    IN  {SelectSeq(all, LAMBDA a : a \in S) : S \in SUBSET Range(all)}

ClassifyTotals == {1, MaxCvg}

InitClassify == InitJac

NextClassify ==
    \/ \E sites \in ClassifySites, ads \in ClassifyAdsorbates :
         \E site_map \in [Range(ads) -> ClassifySiteNames] :
            classify_adsorbates_on(sites, ads, site_map)
    \/ \E sites \in ClassifySites, ads \in ClassifyAdsorbates :
         \E site_map \in [Range(ads) -> ClassifySiteNames],
            totals \in [Range(sites) -> ClassifyTotals] :
            get_fsite_theta_sym(sites, ads, site_map, totals)

SpecClassify == InitClassify /\ [][NextClassify]_vars

(***************************************************************************)
(* Properties of the barriers and rate constants (specification Spec).     *)
(***************************************************************************)
\* The stoichiometry-weighted energy sum of a state under the current E,
\* written out over the positions of the state.
WeightedG(state) ==
    LET RECURSIVE upto(_)
        upto(j) == IF j = 0 THEN 0
                   ELSE state[j].stoichiometry * E[state[j].species_name]
                            + upto(j - 1)
    IN  upto(Len(state))

G_initial(i) == WeightedG(rxns_list[i][1])

G_final(i) == WeightedG(rxns_list[i][Len(rxns_list[i])])

G_middle(i) == WeightedG(rxns_list[i][2])

Larger(a, b) == IF a > b THEN a ELSE b

NoSym == [k \in SymNames |-> 0]

\* kf/kr = 2^d, that is exp(d*ln(2)), for integers kf, kr > 0.
RatioIsTwoTo(kf, kr, d) ==
    IF d >= 0 THEN kf = kr * 2 ^ d ELSE kr = kf * 2 ^ (0 - d)

\* C1: for every reaction with exactly 2 states the stored barriers are those
\* of the transition energy max(G_IS, G_FS); the symbolic barriers, once
\* built, evaluate under E to the same barriers; and when G_IS = G_FS the
\* symbolic path takes the final state as the transition state (its reverse
\* barrier is the empty expression).
C1_TwoStateTransitionIsMax ==
    \A i \in RxnIdx :
        Len(rxns_list[i]) = 2 =>
            LET top == Larger(G_initial(i), G_final(i))
            IN  /\ _Gaf[i] = top - G_initial(i)
                /\ _Gar[i] = top - G_final(i)
                /\ delta_G_syms # <<>> =>
                     /\ eval_sym(delta_G_syms[1].f[i], E) = _Gaf[i]
                     /\ eval_sym(delta_G_syms[1].r[i], E) = _Gar[i]
                     /\ G_initial(i) = G_final(i) =>
                            delta_G_syms[1].r[i] = NoSym

\* A 2-state reaction with equal state energies whose symbolic barriers have
\* been built.
C1_Witness ==
    /\ last_call = [op |-> "get_delta_G_symbols", raised |-> "None"]
    /\ delta_G_syms # <<>>
    /\ \E i \in RxnIdx :
         /\ Len(rxns_list[i]) = 2
         /\ G_initial(i) = G_final(i)
         /\ delta_G_syms[1].f[i] # NoSym

\* C2: for every reaction with an explicit transition state (3 states),
\* forward barrier - reverse barrier = G_FS - G_IS.
C2_BarrierDifference ==
    \A i \in RxnIdx :
        Len(rxns_list[i]) = 3 =>
            _Gaf[i] - _Gar[i] = G_final(i) - G_initial(i)

\* get_rate_constants has run on a 3-state reaction with G_FS # G_IS.
C2_Witness ==
    /\ last_call = [op |-> "get_rate_constants", raised |-> "None"]
    /\ \E i \in RxnIdx :
         /\ Len(rxns_list[i]) = 3
         /\ G_final(i) - G_initial(i) > 1
         /\ _Gaf[i] # _Gar[i]

\* C3 as stated: kf[i]/kr[i] = exp(+(G_FS - G_IS)/(kB*T)) for every reaction.
C3_RatioExponentPlus ==
    \A i \in RxnIdx :
        RatioIsTwoTo(_kfs[i], _krs[i], G_final(i) - G_initial(i))

\* C3 amended: kf[i]/kr[i] = exp(-(G_FS - G_IS)/(kB*T)) for every reaction:
\* the exponent of the ratio is (G_IS - G_FS)/(kB*T).
C3_RatioExponentMinus ==
    \A i \in RxnIdx :
        RatioIsTwoTo(_kfs[i], _krs[i], G_initial(i) - G_final(i))

\* get_rate_constants has run with a downhill 2-state and an uphill 3-state
\* reaction.
C3_Witness ==
    /\ last_call = [op |-> "get_rate_constants", raised |-> "None"]
    /\ \E i, j \in RxnIdx :
         /\ Len(rxns_list[i]) = 2 /\ G_final(i) < G_initial(i)
         /\ Len(rxns_list[j]) = 3 /\ G_final(j) > G_initial(j)
         /\ _kfs[i] # _krs[i] /\ _kfs[j] # _krs[j]

\* C4: for every reaction with G_FS < G_IS the forward rate constant is
\* strictly greater than the reverse one and the forward barrier is the
\* smaller; with G_FS = G_IS the two rate constants are equal.
C4_DownhillForwardFaster ==
    \A i \in RxnIdx :
        /\ G_final(i) < G_initial(i) =>
               _kfs[i] > _krs[i] /\ _Gaf[i] < _Gar[i]
        /\ G_final(i) = G_initial(i) => _kfs[i] = _krs[i]

\* get_rate_constants has run with one downhill reaction and one reaction of
\* equal initial and final energy.
C4_Witness ==
    /\ last_call = [op |-> "get_rate_constants", raised |-> "None"]
    /\ \E i, j \in RxnIdx :
         /\ G_final(i) < G_initial(i) /\ _kfs[i] > _krs[i]
         /\ G_final(j) = G_initial(j) /\ _kfs[j] = _krs[j]

\* C5: barriers are never clipped.  A 3-state reaction has exactly the
\* barriers G_TS - G_IS and G_TS - G_FS, negative when the transition state
\* lies below, and no error is raised; a 2-state reaction has both barriers
\* >= 0 and at least one of them 0.
C5_BarriersNotClipped ==
    /\ last_call.op = "get_rate_constants" => last_call.raised = "None"
    /\ \A i \in RxnIdx :
         /\ Len(rxns_list[i]) = 3 =>
                /\ _Gaf[i] = G_middle(i) - G_initial(i)
                /\ _Gar[i] = G_middle(i) - G_final(i)
         /\ Len(rxns_list[i]) = 2 =>
                /\ _Gaf[i] >= 0 /\ _Gar[i] >= 0
                /\ _Gaf[i] = 0 \/ _Gar[i] = 0

\* get_rate_constants has run on a 3-state reaction whose transition state
\* lies below both its initial and its final state.
C5_Witness ==
    /\ last_call = [op |-> "get_rate_constants", raised |-> "None"]
    /\ \E i \in RxnIdx :
         /\ Len(rxns_list[i]) = 3
         /\ G_middle(i) < G_initial(i) /\ G_middle(i) < G_final(i)
         /\ _Gaf[i] < 0 /\ _Gar[i] < 0

(***************************************************************************)
(* Missing free energies (specification SpecData).                         *)
(***************************************************************************)
\* Some species term of some state of some reaction has no entry in E.
MissingEnergy ==
    \E i \in RxnIdx :
        \E j \in DOMAIN rxns_list[i] :
            \E t \in DOMAIN rxns_list[i][j] :
                rxns_list[i][j][t].species_name \notin DOMAIN E

\* C6: when a species term of the network has no entry in E, a call of
\* get_rate_constants raises (KeyError, the missing-energy error: no energy
\* is defaulted) and leaves the stored _Gaf, _Gar, _kfs, _krs unchanged.
C6_MissingEnergyRaises ==
    [][(get_rate_constants /\ MissingEnergy) =>
          /\ last_call'.raised = "KeyError"
          /\ UNCHANGED <<_Gaf, _Gar, _kfs, _krs>>]_vars

\* get_rate_constants has been called with an entry missing and has raised;
\* the rate constants of the construction are still stored.
C6_Witness ==
    /\ MissingEnergy
    /\ last_call = [op |-> "get_rate_constants", raised |-> "KeyError"]
    /\ Len(_kfs) = rxns_num /\ Len(_Gaf) = rxns_num

(***************************************************************************)
(* The Newton iteration (specification SpecNewton).                        *)
(***************************************************************************)
\* The point an iteration of generator i starts from.
StartPoint(i) == IF gen[i] = "created" THEN self_x0 ELSE x0[i]

FoundMsg == "Solver: Found stationary point."

ZeroDivMsg == "ZeroDivisionError!"

\* C7: the candidate point of iterations 1..5 is passed through the identity
\* constraint, the candidate point of every iteration >= 6 through the real
\* constraint, and within one run the constraint never goes back from the
\* real to the identity constraint.
C7_ConstraintPhases ==
    [][\A i \in Iters :
          newton_next(i) =>
              /\ (yielded'[i] # <<>> /\ iter_counter'[i] <= 5) =>
                     /\ constraint' = "quasi"
                     /\ x0'[i] = candidate(StartPoint(i))
              /\ (yielded'[i] # <<>> /\ iter_counter'[i] >= 6) =>
                     /\ constraint' = "real"
                     /\ x0'[i] = apply_real_constraint(
                                     real_constraint,
                                     candidate(StartPoint(i)))
              /\ (gen[i] = "suspended" /\ constraint = "real") =>
                     constraint' = "real"]_vars

\* Iteration 6 of a walk that left the feasible set during the first five
\* iterations has yielded a point the real constraint brought back.
C7_Witness ==
    /\ gen[1] = "suspended" /\ iter_counter[1] = 6
    /\ constraint = "real" /\ real_constraint = "clamp"
    /\ f = SlowWalk.f /\ J = SlowWalk.J
    /\ x0[1] \in Feasible

\* C8: an iteration whose linear solve succeeds yields a triple, and it is
\* the stationary (last) one exactly when the constrained new point equals
\* the previous point; after the stationary triple the next resumption ends
\* the sequence without another triple; after any other triple the next
\* resumption runs another iteration.
C8_StationaryEndsSequence ==
    [][\A i \in Iters :
          newton_next(i) =>
              /\ yielded'[i] # <<>> =>
                     /\ cancel'[i] <=> (yielded'[i][1].point = StartPoint(i))
                     /\ (printed'[i] = FoundMsg) <=> cancel'[i]
              /\ (gen[i] = "suspended" /\ cancel[i]) =>
                     /\ gen'[i] = "done" /\ yielded'[i] = <<>>
                     /\ iter_counter'[i] = iter_counter[i]
              /\ (gen[i] = "suspended" /\ ~cancel[i]) =>
                     iter_counter'[i] = iter_counter[i] + 1]_vars

\* A run that found a stationary point after at least two iterations and
\* has ended.
C8_Witness ==
    /\ gen[1] = "done" /\ next_raised[1] = "StopIteration"
    /\ printed[1] = FoundMsg /\ cancel[1]
    /\ iter_counter[1] >= 2

\* C9 as stated: a run aborted by a singular linear solve has yielded no
\* triple for that iteration and has reported an error, an outcome other
\* than the plain end of the sequence that convergence gives.
C9_SingularSolveReported ==
    \A i \in Iters :
        (gen[i] = "done" /\ printed[i] = ZeroDivMsg) =>
            /\ yielded[i] = <<>>
            /\ next_raised[i] \notin {"None", "StopIteration"}

\* C10: the iteration has no cap of its own.  A generator that has ended has
\* found a stationary point or hit a singular solve; and whatever the
\* iteration count, resuming a generator that has neither found a stationary
\* point nor hit a singular solve runs the next iteration, which yields a
\* triple unless its own linear solve is singular.
C10_NoInternalCap ==
    /\ [](\A i \in Iters :
             gen[i] = "done" => printed[i] \in {FoundMsg, ZeroDivMsg})
    /\ [][\A i \in Iters :
             (newton_next(i) /\ ~cancel[i]) =>
                 /\ iter_counter'[i] = iter_counter[i] + 1
                 /\ yielded'[i] # <<>> \/ printed'[i] = ZeroDivMsg]_vars

\* MaxIter iterations have run and the generator is still not finished.
C10_Witness ==
    /\ gen[1] = "suspended" /\ ~cancel[1]
    /\ iter_counter[1] = MaxIter
    /\ yielded[1] # <<>>

\* The point the first iteration of a new run started from x yields (the
\* linear solve at x is the one the stationary iteration already did).
RestartedStep(x) == apply_constraint(select_constraint(1), candidate(x))

\* C11 as stated: for every point a run yields as stationary, the first
\* iteration of a new run started from that point, with the same f, J and
\* real constraint, yields that point again; also when the stationary point
\* was found after the warm-up iterations.
C11_RestartReturnsSamePoint ==
    \A i \in Iters :
        (gen[i] = "suspended" /\ cancel[i] /\ yielded[i] # <<>>) =>
            RestartedStep(yielded[i][1].point) = yielded[i][1].point

\* C12 as stated: with a real constraint that maps every vector into the
\* feasible set, every point a run yields, at every iteration and the
\* stationary one included, has all coverages >= 0 and the coverages of
\* the site's adsorbates summing to at most a full site.
C12_YieldedPointsFeasible ==
    real_constraint = "clamp" =>
        \A i \in Iters :
            yielded[i] # <<>> =>
                LET x == yielded[i][1].point
                IN  /\ x[1] >= 0 /\ x[2] >= 0
                    /\ x[1] + x[2] <= MaxCvg

(***************************************************************************)
(* Properties of the rates, the turnover frequencies and rate control      *)
(* (specifications SpecTof and SpecRates).                                 *)
(***************************************************************************)
\* C13 as stated: after any sequence of get_data_dict, correct_energies,
\* get_tof and get_rate_constants calls the stored _kfs, _krs, _Gaf and _Gar
\* are the ones derived from the current E.
C13_StoredConstantsFollowE ==
    LET rc == rate_constants_net(network, E)
    IN  last_call.op \in {"__init__", "get_data_dict", "correct_energies",
                          "get_tof", "get_rate_constants"} =>
            /\ ~rc.raised
            /\ _kfs = rc.kfs /\ _krs = rc.krs
            /\ _Gaf = rc.Gaf /\ _Gar = rc.Gar

\* C14 as stated: for every Gs, E after get_tof(Gs) returns equals E before
\* the call.
C14_GetTofLeavesE ==
    [][\A Gs \in GsInputs : get_tof(Gs) => E' = E]_vars

\* The common factors the rate constants are multiplied by.
ScaleFactors == 0..3

\* C15: get_cvg_tof at fixed coverages is linear in the rate constants: with
\* every forward and reverse rate constant multiplied by c, every entry of
\* the TOF vector is c times the entry get_cvg_tof returned.
C15_TofScalesWithRateConstants ==
    [][\A cvgs \in RateCvgs :
          (get_cvg_tof(cvgs) /\ last_call'.raised = "None") =>
              \A c \in ScaleFactors :
                  cvg_tof_of(network, rate_expressions[1], scaled(_kfs', c),
                             scaled(_krs', c), p, cvgs).tof
                      = [g \in DOMAIN tof'[1] |-> c * tof'[1][g]]]_vars

\* get_cvg_tof has returned a TOF vector with a non-zero entry, from rate
\* constants that differ between the directions.
C15_Witness ==
    /\ last_call = [op |-> "get_cvg_tof", raised |-> "None"]
    /\ returned = tof
    /\ \E g \in DOMAIN tof[1] : tof[1][g] # 0
    /\ _kfs # _krs

\* C16 as stated: get_reversibilities, called with the rates get_rates
\* stored, reports exactly 1.0 for every reaction whose forward and reverse
\* rate constants are equal, whatever the coverages.
C16_EqualConstantsReversibilityOne ==
    [][\A rates \in RateInputs :
          (/\ _rates # <<>>
           /\ rates = <<_rates[1].rfs, _rates[1].rrs>>
           /\ get_reversibilities(rates[1], rates[2])) =>
              /\ last_call'.raised = "None"
              /\ \A i \in DOMAIN network :
                    _kfs[i] = _krs[i] =>
                        reversibilities'[1][i].num
                            = reversibilities'[1][i].den]_vars

\* C17: get_reversibilities called with lists of different lengths raises
\* before it computes anything: the reversibilities attribute is unchanged
\* and nothing is handed to the logger.
C17_LengthMismatchRaisesFirst ==
    [][\A rates \in RateInputs :
          (/\ Len(rates[1]) # Len(rates[2])
           /\ get_reversibilities(rates[1], rates[2])) =>
              /\ last_call' = [op |-> "get_reversibilities",
                               raised |-> "ValueError"]
              /\ reversibilities' = reversibilities
              /\ archived' = <<>>
              /\ returned' = <<>>]_vars

\* get_reversibilities has raised ValueError on a solver that already has
\* reversibilities.
C17_Witness ==
    /\ last_call = [op |-> "get_reversibilities", raised |-> "ValueError"]
    /\ reversibilities # <<>>
    /\ archived = <<>>

\* The names the logger is handed by one get_tof, in call order.
TofArchiveNames == <<"rates", "net_rates", "tofs">>

\* The TOF vectors of a list of get_tof calls made one after the other from
\* the energies Emap, computed without any logger.
TofsOfCalls(calls, Emap) ==
    [k \in DOMAIN calls |->
        tof_result(network, rate_expressions_of(network),
                   E_after(calls, k, Emap), p, steady_state_cvg).tof]

\* C18: archival is observational and keeps call order.  One get_tof hands
\* the logger 'rates', 'net_rates', 'tofs' in this order, each with the value
\* just computed; get_rate_control hands over 'DTRC' after the three entries
\* of every get_tof evaluation; and what get_rates, get_net_rates,
\* get_reversibilities, get_tof and get_rate_control return is determined by
\* the solver state and the arguments alone, the same with a logger that
\* records and with one that does nothing (which is handed nothing).
C18_ArchiveObservational ==
    [][/\ logger_kind = "noop" => archived' = <<>>
       /\ (/\ last_call' = [op |-> "get_rates", raised |-> "None"]
           /\ get_rates(steady_state_cvg)) =>
             /\ returned' = << <<_rates'[1].rfs, _rates'[1].rrs>> >>
             /\ _rates'[1].rfs =
                  exec_exprs(rate_expressions[1].f, Len(network), _kfs',
                             _krs', cvg_tuple2dict(steady_state_cvg), p)
             /\ logger_kind = "record" =>
                  archived' = << [name |-> "rates", value |-> returned'[1]] >>
       /\ (/\ last_call'.op = "get_net_rates" /\ _rates # <<>>
           /\ get_net_rates(_rates[1].rfs, _rates[1].rrs)) =>
             /\ returned' = <<net_rates_of(_rates[1].rfs, _rates[1].rrs)>>
             /\ logger_kind = "record" =>
                  archived' =
                      << [name |-> "net_rates", value |-> returned'[1]] >>
       /\ \A rates \in RateInputs :
             (/\ last_call' = [op |-> "get_reversibilities",
                               raised |-> "None"]
              /\ get_reversibilities(rates[1], rates[2])) =>
                 /\ returned' =
                      << [i \in DOMAIN rates[1] |->
                            reversibility(rates[1][i], rates[2][i])] >>
                 /\ logger_kind = "record" =>
                      archived' = << [name |-> "reversibilities",
                                      value |-> returned'[1]] >>
       /\ \A Gs \in GsInputs :
             (/\ last_call' = [op |-> "get_tof", raised |-> "None"]
              /\ get_tof(Gs)) =>
                 /\ returned' = <<TofsOfCalls(<<Gs>>, E)[1]>>
                 /\ logger_kind = "record" =>
                      archived' =
                          << [name |-> "rates",
                              value |-> <<_rates'[1].rfs, _rates'[1].rrs>>],
                             [name |-> "net_rates", value |-> net_rates'[1]],
                             [name |-> "tofs", value |-> returned'[1]] >>
       /\ (/\ last_call' = [op |-> "get_rate_control", raised |-> "None"]
           /\ get_rate_control) =>
             /\ returned' =
                  << DTRC_of(TofsOfCalls(tof_calls', E), tof'[1],
                             tof_calls'[1], perturbation_size,
                             perturbation_direction) >>
             /\ logger_kind = "record" =>
                  /\ Len(archived') = 3 * Len(tof_calls') + 1
                  /\ archived'[Len(archived')] =
                       [name |-> "DTRC", value |-> returned'[1]]
                  /\ \A n \in 1..(3 * Len(tof_calls')) :
                        /\ archived'[n].name =
                             TofArchiveNames[((n - 1) % 3) + 1]
                        /\ (n % 3 = 0) =>
                             archived'[n].value =
                                 TofsOfCalls(tof_calls', E)[n \div 3]]_vars

\* get_rate_control has returned on a solver whose logger records: the
\* logger holds the entries of every get_tof evaluation and then 'DTRC'.
C18_Witness ==
    /\ last_call = [op |-> "get_rate_control", raised |-> "None"]
    /\ logger_kind = "record"
    /\ Len(archived) = 3 * Len(tof_calls) + 1
    /\ Len(tof_calls) = Len(Gs_order) + 2
    /\ returned # <<>>

\* C19 as stated: for every position of the network, the expressions
\* generated for that position assign rfs/rrs at that position and use the
\* rate constants of that position, and get_rates returns a rate pair for
\* it: the rates of the forward and reverse expressions of that position;
\* also with two equal reactions at different positions.
C19_ExpressionsFollowPositions ==
    /\ rate_expressions # <<>> =>
          \A pos \in DOMAIN network :
              /\ rate_expressions[1].f[pos].assigns = pos - 1
              /\ rate_expressions[1].f[pos].expr.k_idx = pos - 1
              /\ rate_expressions[1].r[pos].assigns = pos - 1
              /\ rate_expressions[1].r[pos].expr.k_idx = pos - 1
    /\ last_call = [op |-> "get_rates", raised |-> "None"] =>
          \A pos \in DOMAIN network :
              \E cvgs \in RateCvgs :
                  /\ _rates[1].rfs[pos] =
                       eval_expr(list2string(pos - 1,
                                             py_getitem(network[pos], 0),
                                             "f"),
                                 _kfs, _krs, cvg_tuple2dict(cvgs), p)
                  /\ _rates[1].rrs[pos] =
                       eval_expr(list2string(pos - 1,
                                             py_getitem(network[pos], -1),
                                             "r"),
                                 _kfs, _krs, cvg_tuple2dict(cvgs), p)

\* C20 as stated: get_rate_control evaluates get_tof at the free energies
\* with every adsorbate coordinate increased and every transition-state
\* coordinate decreased by the step, each in its turn.
C20_DirectionByCoordinateClass ==
    (last_call.op = "get_rate_control"
        /\ Len(tof_calls) = Len(Gs_order) + 2) =>
        \A j \in DOMAIN Gs_order :
            tof_calls[j + 1] =
                [tof_calls[1] EXCEPT
                    ![j] = tof_calls[1][j]
                             + step_sign_classified(perturbation_direction, j)
                               * delta_of(perturbation_size, tof_calls[1][j])]

(***************************************************************************)
(* Properties of the symbolic path (specification SpecSym).                *)
(***************************************************************************)
\* C21 as stated: at the same coverages, energies, pressures and gas matrix
\* the TOF get_tof_by_sym returns equals, for every gas, the TOF the numeric
\* get_cvg_tof computes.
C21_SymbolicTofEqualsNumeric ==
    [][\A cvgs \in RateCvgs :
          (/\ last_call' = [op |-> "get_tof_by_sym", raised |-> "None"]
           /\ get_tof_by_sym(cvgs)) =>
              \A g \in DOMAIN gas_names :
                  returned'[1][g] =
                      tof_result(network, rate_expressions_of(network), E, p,
                                 cvgs).tof[g]]_vars

\* C22 as stated: after any sequence of energy updates the rate constants
\* get_rate_constants_by_sym returns equal those get_rate_constants computes
\* from the same E, for every reaction.
C22_SymbolicRateConstantsEqualNumeric ==
    [][(/\ last_call' = [op |-> "get_rate_constants_by_sym",
                         raised |-> "None"]
        /\ get_rate_constants_by_sym) =>
            /\ returned'[1].kfs = rate_constants_net(network, E).kfs
            /\ returned'[1].krs = rate_constants_net(network, E).krs]_vars

(***************************************************************************)
(* Properties of loading and correcting energies (specification SpecLoad). *)
(***************************************************************************)
\* The owner's data lacks a pressure, a formation energy or frequencies
\* that get_data_dict reads.
LacksData ==
    \/ \E gas \in Range(gas_names) :
          \/ gas \notin DOMAIN species_definitions
          \/ "pressure" \notin DOMAIN species_definitions[gas]
    \/ \E sp \in DOMAIN species_definitions :
          \/ "formation_energy" \notin DOMAIN species_definitions[sp]
          \/ "frequencies" \notin DOMAIN species_definitions[sp]

\* C23: get_data_dict is all-or-nothing.  When the owner has no data, or a
\* species lacks its pressure, formation energy or frequencies, the call
\* raises, and p, E, frequencies, has_data and energy_correction are what
\* they were before the call.
C23_DataDictAllOrNothing ==
    [][(last_call'.op = "get_data_dict" /\ get_data_dict) =>
          /\ (~hasdata \/ LacksData) => last_call'.raised # "None"
          /\ last_call'.raised # "None" =>
                /\ p' = p /\ E' = E /\ frequencies' = frequencies
                /\ has_data' = has_data
                /\ energy_correction' = energy_correction]_vars

\* get_data_dict has raised on a solver whose energies were corrected.
C23_Witness ==
    /\ last_call.op = "get_data_dict" /\ last_call.raised # "None"
    /\ energy_correction
    /\ ~hasdata \/ LacksData


\* C24: every triple a Newton generator yields is self-consistent: its
\* residual vector is F evaluated at the yielded (constrained) point, its
\* residual norm is the norm of that vector, and the generator's own x0, fx
\* and fxnorm are the members of the triple.
C24_YieldedTripleConsistent ==
    \A i \in Iters :
        yielded[i] # <<>> =>
            LET y == yielded[i][1]
            IN  /\ y.residual_vector = apply_f(f, y.point)
                /\ y.residual_norm = norm(y.residual_vector)
                /\ y.point = x0[i]
                /\ y.residual_vector = fx[i]
                /\ y.residual_norm = fxnorm[i]

\* A first yield whose point has moved from the starting point to a point
\* with another residual norm.
C24_Witness ==
    /\ iter_counter[1] = 1
    /\ yielded[1] # <<>>
    /\ yielded[1][1].point # self_x0
    /\ yielded[1][1].residual_norm # norm(apply_f(f, self_x0))



(***************************************************************************)
(* The classified Jacobian (specification SpecJac).                        *)
(***************************************************************************)
\* C25: in classified_numerical_jacobian column j comes from the point that
\* differs from x in coordinate j only, by delta = max(|h*x[j]|, h), which
\* is never 0; a coordinate whose index is below the number of adsorbates
\* is increased and every other one decreased; and the quotient divides the
\* difference of f by the signed step, so that for a linear f every entry
\* is the exact derivative whatever the direction.
C25_ClassifiedJacobianColumns ==
    [][\A fobj \in JacFunctions, h \in JacSteps :
          (/\ last_call' = [op |-> "classified_numerical_jacobian",
                            raised |-> "None"]
           /\ tof_calls' # <<>>
           /\ classified_numerical_jacobian(fobj, tof_calls'[1], h)) =>
             LET x == tof_calls'[1]
             IN  /\ Len(tof_calls') = Len(x) + 1
                 /\ \A j \in DOMAIN x :
                      LET pt == tof_calls'[j + 1]
                          step == pt[j] - x[j]
                      IN  /\ \A k \in DOMAIN x \ {j} : pt[k] = x[k]
                          /\ step # 0
                          /\ abs(step) >= h /\ abs(step) >= abs(h * x[j])
                          /\ abs(step) \in {h, abs(h * x[j])}
                          /\ (j <= Len(adsorbate_names)) = (step > 0)
                          /\ \A i \in DOMAIN returned'[1] :
                               LET q == returned'[1][i][j]
                               IN  /\ q.den = step
                                   /\ q.num = jac_apply(fobj, pt)[i]
                                               - jac_apply(fobj, x)[i]
                                   /\ fobj = "linear" =>
                                        q.num = JacCoef[i][j] * q.den]_vars

\* The Jacobian of the linear f at a point whose transition-state
\* coordinate is stepped down by more than h.
C25_Witness ==
    /\ last_call.op = "classified_numerical_jacobian"
    /\ Len(tof_calls) = Len(Gs_order) + 1
    /\ LET x == tof_calls[1]
           pt == tof_calls[Len(Gs_order) + 1]
       IN  /\ x[Len(Gs_order)] - pt[Len(Gs_order)] > 1
           /\ returned[1][1][Len(Gs_order)].num = x[Len(Gs_order)] - pt[Len(Gs_order)]



(***************************************************************************)
(* The adsorbates by site (specification SpecClassify).                    *)
(***************************************************************************)
\* C26: classify_adsorbates partitions the adsorbates by site: every site
\* name has an entry, possibly empty, and every adsorbate is in exactly one
\* list, once, the list of the site of its species definition; and the
\* symbolic free-site coverage of a site is the total of the site minus the
\* coverages of exactly the adsorbates of its list.
C26_AdsorbatesPartitionedBySite ==
    [][\A sites \in ClassifySites, ads \in ClassifyAdsorbates :
        \A site_map \in [Range(ads) -> Range(sites)] :
          /\ (/\ last_call' = [op |-> "classify_adsorbates", raised |-> "None"]
              /\ classify_adsorbates_on(sites, ads, site_map)) =>
                LET d == returned'[1]
                IN  /\ DOMAIN d = Range(sites)
                    /\ \A a \in Range(ads) :
                         \A site_name \in Range(sites) :
                            Cardinality({j \in DOMAIN d[site_name] :
                                            d[site_name][j] = a})
                              = IF site_map[a] = site_name THEN 1 ELSE 0
                    /\ \A site_name \in Range(sites) :
                         Range(d[site_name]) \subseteq Range(ads)
          /\ \A totals \in [Range(sites) -> ClassifyTotals] :
               (/\ last_call' = [op |-> "get_fsite_theta_sym",
                                 raised |-> "None"]
                /\ get_fsite_theta_sym(sites, ads, site_map, totals)) =>
                  \A k \in DOMAIN sites :
                     /\ returned'[1][k].const = totals[sites[k]]
                     /\ \A a \in Range(ads) :
                          returned'[1][k].coef[a] =
                              IF site_map[a] = sites[k] THEN 0 - 1 ELSE 0]_vars

\* Two sites with adsorbates on both, and a free-site coverage of the
\* second site that subtracts one coverage and not another.
C26_Witness ==
    /\ last_call = [op |-> "get_fsite_theta_sym", raised |-> "None"]
    /\ Len(returned[1]) = 2
    /\ \E a, b \in DOMAIN returned[1][2].coef :
          /\ returned[1][2].coef[a] = 0 - 1
          /\ returned[1][2].coef[b] = 0
          /\ returned[1][1].coef[b] = 0 - 1



(***************************************************************************)
(* Two generators of one NewtonRoot (specification SpecNewton2).           *)
(***************************************************************************)
\* The point a generator run alone holds after n iterations: it starts
\* from x0 and passes the candidate of iteration k through the constraint
\* its own counter k selects.
RECURSIVE lone_x(_)
lone_x(n) ==
    IF n = 0 THEN quasi_constraint(self_x0)
    ELSE apply_constraint(select_constraint(n), candidate(lone_x(n - 1)))

\* C27: two generators of the same NewtonRoot, their next() calls
\* interleaved in any way, each produce the triples of a generator run
\* alone: a new generator starts from x0 with the counter 0, and the triple
\* of its n-th iteration is the one of the n-th iteration of a lone run,
\* which ends where the lone run ends.
C27_InterleavedIteratorsAsAlone ==
    \A i \in Iters :
        /\ gen[i] = "created" => iter_counter[i] = 0 /\ x0[i] = self_x0
        /\ gen[i] = "suspended" =>
              \E x_prev \in {lone_x(iter_counter[i] - 1)} :
                \E x_now \in {apply_constraint(
                                  select_constraint(iter_counter[i]),
                                  candidate(x_prev))} :
                  /\ yielded[i] # <<>>
                  /\ yielded[i][1].point = x_now
                  /\ yielded[i][1].residual_vector = apply_f(f, x_now)
                  /\ yielded[i][1].residual_norm = norm(apply_f(f, x_now))
                  /\ cancel[i] = (x_now = x_prev)

\* One generator past the identity phase, its real constraint having moved
\* a point, and the other one suspended in the identity phase at a point
\* the real constraint would move.
C27_Witness ==
    \E i, j \in Iters :
        /\ gen[i] = "suspended" /\ gen[j] = "suspended"
        /\ iter_counter[i] > WarmUp /\ iter_counter[j] <= WarmUp
        /\ constraint = "real"
        /\ apply_constraint("real", x0[j]) # x0[j]



(***************************************************************************)
(* Frame of the turnover frequencies (specification SpecTof).              *)
(***************************************************************************)
\* C28: when get_rate_control returns, E has the values it had before the
\* call, and the stored tof, net_rates, _rates and rate constants are those
\* of these unperturbed energies.
C28_RateControlRestoresState ==
    [][(/\ last_call' = [op |-> "get_rate_control", raised |-> "None"]
        /\ get_rate_control) =>
          /\ E' = E
          /\ \E r \in {tof_result(network, rate_expressions_of(network), E, p,
                                   steady_state_cvg)} :
                /\ tof' = <<r.tof>>
                /\ net_rates' = <<r.net_rates>>
                /\ _rates' = <<[rfs |-> r.rfs, rrs |-> r.rrs]>>
          /\ \E rc \in {rate_constants_net(network, E)} :
                /\ ~rc.raised
                /\ _kfs' = rc.kfs /\ _krs' = rc.krs]_vars

\* get_rate_control has returned, and the turnover frequencies of its last
\* perturbed evaluation are not the stored ones.
C28_Witness ==
    /\ last_call = [op |-> "get_rate_control", raised |-> "None"]
    /\ Len(tof_calls) = Len(Gs_order) + 2
    /\ tof # <<tof_result(network, rate_expressions_of(network),
                          E_with_Gs(E, tof_calls[Len(Gs_order) + 1]), p,
                          steady_state_cvg).tof>>



\* C29: get_tof(Gs) sets the entry of the k-th name of adsorbate_names +
\* transition_state_names to Gs[k] for the names Gs reaches and leaves every
\* other entry of E (gases, free sites, the names a short Gs does not
\* reach) and the pressures as they are; a short Gs raises no error.
C29_GetTofWritesLeadingNames ==
    [][\A Gs \in GsShort :
          (/\ last_call'.op = "get_tof"
           /\ tof_calls' = <<Gs>>
           /\ get_tof(Gs)) =>
             /\ last_call'.raised = "None"
             /\ p' = p
             /\ DOMAIN E' = DOMAIN E
             /\ \A key \in DOMAIN E :
                  IF \E k \in DOMAIN Gs \cap DOMAIN Gs_order :
                        Gs_order[k] = key
                  THEN \A k \in DOMAIN Gs \cap DOMAIN Gs_order :
                          Gs_order[k] = key => E'[key] = Gs[k]
                  ELSE E'[key] = E[key]]_vars

\* A get_tof with a one-element Gs after which the transition state keeps
\* an energy other than 0.
C29_Witness ==
    /\ last_call = [op |-> "get_tof", raised |-> "None"]
    /\ tof_calls # <<>>
    /\ Len(tof_calls[1]) = 1
    /\ E[transition_state_names[1]] # 0
    /\ E[adsorbate_names[1]] = tof_calls[1][1]



(***************************************************************************)
(* Loads and corrections (specification SpecLoad).                         *)
(***************************************************************************)
\* The correction a completed correct_energies adds to a gas.
correction_of(correction_dict, gas) ==
    IF gas \in DOMAIN correction_dict THEN correction_dict[gas] ELSE 0

\* E[g] = formation energy + k * correction for every gas whose formation
\* energy the owner still has, and energy_correction exactly when k > 0.
CorrectedTimes(k, correction_dict) ==
    /\ \A gas \in Range(gas_names) :
          (/\ gas \in DOMAIN species_definitions
           /\ "formation_energy" \in DOMAIN species_definitions[gas]) =>
             E[gas] = species_definitions[gas].formation_energy
                        + k * correction_of(correction_dict, gas)
    /\ energy_correction = (k > 0)

\* C30: through get_data_dict and correct_energies calls, every gas energy
\* is its formation energy plus k times its correction, k the number of
\* correct_energies calls completed since the last completed get_data_dict,
\* and energy_correction is true exactly when k > 0: a completed
\* get_data_dict makes k = 0, a completed correct_energies adds the
\* correction once more whatever the flag is, and a call that raises
\* changes neither E nor the flag.
C30_CorrectionsAccumulate ==
    [][\A correction_dict \in CorrectionDicts :
        /\ (/\ last_call' = [op |-> "get_data_dict", raised |-> "None"]
            /\ get_data_dict) =>
              /\ ~energy_correction'
              /\ \A gas \in Range(gas_names) :
                    E'[gas] = species_definitions[gas].formation_energy
        /\ (/\ last_call' = [op |-> "correct_energies", raised |-> "None"]
            /\ correct_energies("shomate_gas", correction_dict)) =>
              /\ energy_correction'
              /\ \A gas \in Range(gas_names) :
                    E'[gas] = E[gas] + correction_of(correction_dict, gas)
              /\ \A k \in 0..(MaxE + 1) :
                    CorrectedTimes(k, correction_dict) =>
                        CorrectedTimes(k + 1, correction_dict)'
        /\ (last_call'.op \in {"get_data_dict", "correct_energies"}
              /\ last_call'.raised # "None") =>
              E' = E /\ energy_correction' = energy_correction
        /\ \E k \in 0..(MaxE + 2) : CorrectedTimes(k, correction_dict)']_vars

\* A gas corrected twice since the data were loaded.
C30_Witness ==
    /\ last_call = [op |-> "correct_energies", raised |-> "None"]
    /\ energy_correction
    /\ \E correction_dict \in CorrectionDicts :
          /\ CorrectedTimes(2, correction_dict)
          /\ gas_names[1] \in DOMAIN species_definitions
          /\ "formation_energy" \in DOMAIN species_definitions[gas_names[1]]
          /\ E[gas_names[1]] # species_definitions[gas_names[1]].formation_energy


====
